---- MODULE Spec2Model ----
(***************************************************************************)
(* Verification model of the Antigravity chat provider:                    *)
(*   - the JSON-schema cleaner (schema-cleaning.ts),                       *)
(*   - the conversation converter and tool pairing (provider-request.ts),  *)
(*   - the provider session with its two signature caches (provider.ts).   *)
(*                                                                         *)
(* JSON values are single-field records, the field naming the kind:        *)
(*   [str |-> tokens]  a string, as the sequence of its tokens             *)
(*   [num |-> n]  [bool |-> b]  [null |-> TRUE]  [undef |-> TRUE]          *)
(*   [arr |-> sequence of values]   [obj |-> function from keys to values] *)
(* String concatenation is concatenation of token sequences, and           *)
(* s.includes(t) is membership of the token t.                             *)
(***************************************************************************)
EXTENDS Integers, Sequences, FiniteSets, TLC

VARIABLES
  \* a tool schema through the cleaner
  schema, cleaned, recleaned, stage,
  \* one call of buildRequestPayload
  chatMessages, requestModel, wire, payloadContents, pc,
  \* a provider instance: its two signature caches, the chat, the request in flight
  history, toolCallSignatures, lastThoughtSignature, phase, sent, turn,
  \* the signature recorded last for each call id
  latest,
  \* how the warmup of the turn ended, and the signed tool calls emitted so far
  warmup, issued,
  \* one call of resolveModelWithTier
  requestedId, resolved,
  \* one call of streamResponse: the bytes of the body, how many were read, the line
  \* buffer, the state handed to handleResponseParts, the cancellation token
  stream, pos, lineBuffer, streamState, cancelled, streamPc, heldBack, turnLog,
  \* turns of one provider instance whose streams are read at the same time: where each
  \* turn stands and what it holds, and the values written to lastThoughtSignature
  inflight, writes

schemaVars == <<schema, cleaned, recleaned, stage>>
payloadVars == <<chatMessages, requestModel, wire, payloadContents, pc>>
sessionVars ==
  <<history, toolCallSignatures, lastThoughtSignature, phase, sent, turn, latest, warmup, issued,
    turnLog>>
resolverVars == <<requestedId, resolved>>
streamVars == <<stream, pos, lineBuffer, streamState, cancelled, streamPc, heldBack>>
overlapVars == <<inflight, writes>>
vars == <<schemaVars, payloadVars, sessionVars, resolverVars, streamVars, overlapVars>>

\* ------------------------------------------------------------- bounds
MaxDepth == 1
MaxEnum == 2
MaxMessages == 3
MaxTurns == 3
MaxLines == 2

\* ------------------------------------------------------------- JSON values
Undef == [undef |-> TRUE]
JNull == [null |-> TRUE]
JTrue == [bool |-> TRUE]
JFalse == [bool |-> FALSE]
Num(n) == [num |-> n]
Toks(t) == [str |-> t]
Str(t) == [str |-> <<t>>]
Arr(s) == [arr |-> s]
Obj(f) == [obj |-> f]
EmptyFn == [k \in {} |-> Undef]
EmptyObj == Obj(EmptyFn)

IsUndef(v) == "undef" \in DOMAIN v
IsNull(v) == "null" \in DOMAIN v
IsStr(v) == "str" \in DOMAIN v
IsNum(v) == "num" \in DOMAIN v
IsBool(v) == "bool" \in DOMAIN v
IsArr(v) == "arr" \in DOMAIN v
IsObj(v) == "obj" \in DOMAIN v
\* typeof v === "object" && v !== null
IsObjectLike(v) == IsArr(v) \/ IsObj(v)

Keys(v) == IF IsObj(v) THEN DOMAIN v.obj ELSE {}
Has(v, k) == k \in Keys(v)
Get(v, k) == IF Has(v, k) THEN v.obj[k] ELSE Undef
Put(v, k, x) == Obj((k :> x) @@ v.obj)
Del(v, ks) == Obj([k \in DOMAIN v.obj \ ks |-> v.obj[k]])
\* { ...a, ...b }
Spread(a, b) == Obj(b.obj @@ a.obj)

\* JavaScript truthiness
Truthy(v) ==
  IF IsUndef(v) \/ IsNull(v) THEN FALSE
  ELSE IF IsBool(v) THEN v.bool
  ELSE IF IsNum(v) THEN v.num # 0
  ELSE IF IsStr(v) THEN Len(v.str) > 0
  ELSE TRUE

IsStrEq(v, t) == IsStr(v) /\ v.str = <<t>>

\* const x = v; F(x): v is evaluated once and F works on its value
Let(v, F(_)) == CHOOSE r \in {F(x) : x \in {v}} : TRUE
HasTok(toks, t) == \E i \in 1..Len(toks) : toks[i] = t

NumTok(n) ==
  CASE n = 0 -> "0" [] n = 1 -> "1" [] n = 2 -> "2" [] n = 3 -> "3"
    [] n = 4 -> "4" [] OTHER -> "n"

RECURSIVE JoinToks(_, _)
JoinToks(seqs, sep) ==
  IF Len(seqs) = 0 THEN <<>>
  ELSE IF Len(seqs) = 1 THEN seqs[1]
  ELSE seqs[1] \o <<sep>> \o JoinToks(Tail(seqs), sep)

\* String(v), as the token sequence of the result
RECURSIVE ToStr(_)
ToStr(v) ==
  IF IsStr(v) THEN v.str
  ELSE IF IsNum(v) THEN <<NumTok(v.num)>>
  ELSE IF IsBool(v) THEN (IF v.bool THEN <<"true">> ELSE <<"false">>)
  ELSE IF IsNull(v) THEN <<"null">>
  ELSE IF IsUndef(v) THEN <<"undefined">>
  ELSE IF IsArr(v) THEN
    JoinToks([i \in 1..Len(v.arr) |->
                IF IsNull(v.arr[i]) \/ IsUndef(v.arr[i]) THEN <<>> ELSE ToStr(v.arr[i])], ",")
  ELSE <<"[object Object]">>

\* ------------------------------------------------------------- schema cleaning
UNSUPPORTED_CONSTRAINTS ==
  <<"minLength", "maxLength", "exclusiveMinimum", "exclusiveMaximum",
    "pattern", "minItems", "maxItems", "format", "default", "examples">>

ConstraintSet == {UNSUPPORTED_CONSTRAINTS[i] : i \in 1..Len(UNSUPPORTED_CONSTRAINTS)}

UNSUPPORTED_KEYWORDS ==
  ConstraintSet \cup
  {"$schema", "$defs", "definitions", "const", "$ref", "additionalProperties",
   "propertyNames", "title", "$id", "$comment"}

EMPTY_SCHEMA_PLACEHOLDER_NAME == "_placeholder"
EMPTY_SCHEMA_PLACEHOLDER_DESCRIPTION == <<"Placeholder. Always pass true.">>
EnumHintMax == 10

DescOf(s) == IF IsStr(Get(s, "description")) THEN Get(s, "description").str ELSE <<>>

appendDescriptionHint(s, hint) ==
  IF ~IsObj(s) THEN s
  ELSE LET existing == DescOf(s)
           newDescription == IF Len(existing) > 0
                             THEN existing \o <<"(">> \o hint \o <<")">>
                             ELSE hint
       IN  Put(s, "description", Toks(newDescription))

\* refVal.includes("/") ? refVal.split("/").pop() : refVal
RECURSIVE LastSegment(_)
LastSegment(toks) ==
  IF ~HasTok(toks, "/") THEN toks
  ELSE LastSegment(Tail(toks))

\* Phase 1a
RECURSIVE convertRefsToHints(_)
convertRefsToHints(s) ==
  IF IsArr(s) THEN Arr([i \in 1..Len(s.arr) |-> convertRefsToHints(s.arr[i])])
  ELSE IF ~IsObj(s) THEN s
  ELSE IF IsStr(Get(s, "$ref")) THEN
    LET hint == <<"See:">> \o LastSegment(Get(s, "$ref").str)
        existingDesc == DescOf(s)
        newDescription == IF Len(existingDesc) > 0
                          THEN existingDesc \o <<"(">> \o hint \o <<")">>
                          ELSE hint
    IN  Obj([type |-> Str("object"), description |-> Toks(newDescription)])
  ELSE Obj([k \in DOMAIN s.obj |-> convertRefsToHints(s.obj[k])])

\* Phase 1b
RECURSIVE convertConstToEnum(_)
convertConstToEnum(s) ==
  IF IsArr(s) THEN Arr([i \in 1..Len(s.arr) |-> convertConstToEnum(s.arr[i])])
  ELSE IF ~IsObj(s) THEN s
  ELSE LET conv == Has(s, "const") /\ ~Truthy(Get(s, "enum"))
           keys == IF conv THEN (DOMAIN s.obj \ {"const"}) \cup {"enum"} ELSE DOMAIN s.obj
       IN  Obj([k \in keys |->
                  IF conv /\ k = "enum" THEN Arr(<<s.obj["const"]>>)
                  ELSE convertConstToEnum(s.obj[k])])

\* Phase 1c
RECURSIVE addEnumHints(_)
addEnumHints(s) ==
  IF IsArr(s) THEN Arr([i \in 1..Len(s.arr) |-> addEnumHints(s.arr[i])])
  ELSE IF ~IsObj(s) THEN s
  ELSE LET e == Get(s, "enum")
           hinted == IF IsArr(e) /\ Len(e.arr) > 1 /\ Len(e.arr) <= EnumHintMax
                     THEN appendDescriptionHint(s,
                            <<"Allowed:">> \o
                            JoinToks([i \in 1..Len(e.arr) |-> ToStr(e.arr[i])], ","))
                     ELSE s
       IN  Let(hinted, LAMBDA r :
             Obj([k \in DOMAIN r.obj |->
                    IF k # "enum" /\ IsObjectLike(r.obj[k]) THEN addEnumHints(r.obj[k])
                    ELSE r.obj[k]]))

\* Phase 1d
RECURSIVE addAdditionalPropertiesHints(_)
addAdditionalPropertiesHints(s) ==
  IF IsArr(s) THEN Arr([i \in 1..Len(s.arr) |-> addAdditionalPropertiesHints(s.arr[i])])
  ELSE IF ~IsObj(s) THEN s
  ELSE LET hinted == IF Get(s, "additionalProperties") = JFalse
                     THEN appendDescriptionHint(s, <<"No extra properties allowed">>)
                     ELSE s
       IN  Let(hinted, LAMBDA r :
             Obj([k \in DOMAIN r.obj |->
                    IF k # "additionalProperties" /\ IsObjectLike(r.obj[k])
                    THEN addAdditionalPropertiesHints(r.obj[k])
                    ELSE r.obj[k]]))

\* the loop over UNSUPPORTED_CONSTRAINTS of moveConstraintsToDescription, from index i
RECURSIVE hintConstraintsFrom(_, _)
hintConstraintsFrom(s, i) ==
  IF i > Len(UNSUPPORTED_CONSTRAINTS) THEN s
  ELSE LET c == UNSUPPORTED_CONSTRAINTS[i]
           v == Get(s, c)
       IN  IF ~IsUndef(v) /\ ~IsObjectLike(v) /\ ~IsNull(v)
           THEN Let(appendDescriptionHint(s, <<c, ":">> \o ToStr(v)),
                    LAMBDA r : hintConstraintsFrom(r, i + 1))
           ELSE hintConstraintsFrom(s, i + 1)

\* Phase 1e
RECURSIVE moveConstraintsToDescription(_)
moveConstraintsToDescription(s) ==
  IF IsArr(s) THEN Arr([i \in 1..Len(s.arr) |-> moveConstraintsToDescription(s.arr[i])])
  ELSE IF ~IsObj(s) THEN s
  ELSE Let(hintConstraintsFrom(s, 1), LAMBDA r :
         Obj([k \in DOMAIN r.obj |->
                IF IsObjectLike(r.obj[k]) THEN moveConstraintsToDescription(r.obj[k])
                ELSE r.obj[k]]))

\* values of seq without later repetitions, first occurrences kept in order
RECURSIVE Dedupe(_)
Dedupe(seq) ==
  IF Len(seq) = 0 THEN <<>>
  ELSE LET init == Dedupe(SubSeq(seq, 1, Len(seq) - 1))
           last == seq[Len(seq)]
       IN  IF \E i \in 1..Len(init) : init[i] = last THEN init ELSE Append(init, last)

\* the loop over result.allOf of mergeAllOf, from item i; acc = [merged, mergedRequired]
RECURSIVE mergeAllOfItems(_, _, _)
mergeAllOfItems(items, i, acc) ==
  IF i > Len(items) THEN acc
  ELSE LET item == items[i]
       IN  IF ~IsObjectLike(item) THEN mergeAllOfItems(items, i + 1, acc)
           ELSE LET ip == Get(item, "properties")
                    m1 == IF IsObj(ip)
                          THEN Put(acc.merged, "properties",
                                   IF IsObj(Get(acc.merged, "properties"))
                                   THEN Spread(Get(acc.merged, "properties"), ip)
                                   ELSE ip)
                          ELSE acc.merged
                    ir == Get(item, "required")
                    r1 == IF IsArr(ir) THEN Dedupe(acc.mergedRequired \o ir.arr)
                          ELSE acc.mergedRequired
                    others == {k \in Keys(item) : k # "properties" /\ k # "required" /\ ~Has(m1, k)}
                    m2 == Obj([k \in others |-> item.obj[k]] @@ m1.obj)
                IN  Let([merged |-> m2, mergedRequired |-> r1],
                        LAMBDA next : mergeAllOfItems(items, i + 1, next))

\* Phase 2a
RECURSIVE mergeAllOf(_)
mergeAllOf(s) ==
  IF IsArr(s) THEN Arr([i \in 1..Len(s.arr) |-> mergeAllOf(s.arr[i])])
  ELSE IF ~IsObj(s) THEN s
  ELSE LET merged ==
                IF IsArr(Get(s, "allOf"))
                THEN LET acc == mergeAllOfItems(Get(s, "allOf").arr, 1,
                                                [merged |-> EmptyObj, mergedRequired |-> <<>>])
                         mp == Get(acc.merged, "properties")
                         r1 == IF Truthy(mp)
                               THEN Put(s, "properties",
                                        IF IsObj(Get(s, "properties"))
                                        THEN Spread(Get(s, "properties"), mp)
                                        ELSE mp)
                               ELSE s
                         existingRequired == IF IsArr(Get(r1, "required"))
                                             THEN Get(r1, "required").arr ELSE <<>>
                         r2 == IF Len(acc.mergedRequired) > 0
                               THEN Put(r1, "required",
                                        Arr(Dedupe(existingRequired \o acc.mergedRequired)))
                               ELSE r1
                         others == {k \in Keys(acc.merged) :
                                      k # "properties" /\ k # "required" /\ ~Has(r2, k)}
                         r3 == Obj([k \in others |-> acc.merged.obj[k]] @@ r2.obj)
                     IN  Del(r3, {"allOf"})
                ELSE s
       IN  Let(merged, LAMBDA r :
             Obj([k \in DOMAIN r.obj |->
                    IF IsObjectLike(r.obj[k]) THEN mergeAllOf(r.obj[k]) ELSE r.obj[k]]))

scoreSchemaOption(s) ==
  IF ~IsObjectLike(s) THEN [score |-> 0, typeName |-> Str("unknown")]
  ELSE LET type == Get(s, "type")
       IN  IF IsStrEq(type, "object") \/ Truthy(Get(s, "properties"))
           THEN [score |-> 3, typeName |-> Str("object")]
           ELSE IF IsStrEq(type, "array") \/ Truthy(Get(s, "items"))
           THEN [score |-> 2, typeName |-> Str("array")]
           ELSE IF Truthy(type) /\ ~IsStrEq(type, "null")
           THEN [score |-> 1, typeName |-> type]
           ELSE [score |-> 0, typeName |-> IF Truthy(type) THEN type ELSE Str("null")]

\* what one option adds to enumValues in tryMergeEnumFromUnion; Undef when the option
\* makes the function return null
enumValuesOfOption(o) ==
  IF ~IsObjectLike(o) THEN Undef
  ELSE LET e == Get(o, "enum")
       IN  IF Has(o, "const") THEN Arr(<<Toks(ToStr(Get(o, "const")))>>)
           ELSE IF IsArr(e) /\ Len(e.arr) > 0
           THEN Arr([i \in 1..Len(e.arr) |-> Toks(ToStr(e.arr[i]))])
           ELSE IF Truthy(Get(o, "properties")) \/ Truthy(Get(o, "items"))
                   \/ Truthy(Get(o, "anyOf")) \/ Truthy(Get(o, "oneOf"))
                   \/ Truthy(Get(o, "allOf"))
           THEN Undef
           ELSE IF Truthy(Get(o, "type")) /\ ~Truthy(Get(o, "const")) /\ ~Truthy(e)
           THEN Undef
           ELSE Arr(<<>>)

RECURSIVE ConcatArrs(_)
ConcatArrs(seq) ==
  IF Len(seq) = 0 THEN <<>> ELSE seq[1].arr \o ConcatArrs(Tail(seq))

\* Undef stands for null
tryMergeEnumFromUnion(options) ==
  IF Len(options) = 0 THEN Undef
  ELSE LET per == [i \in 1..Len(options) |-> enumValuesOfOption(options[i])]
       IN  IF \E i \in 1..Len(per) : IsUndef(per[i]) THEN Undef
           ELSE IF Len(ConcatArrs(per)) > 0 THEN Arr(ConcatArrs(per)) ELSE Undef

\* index of the first option with the highest score
bestOption(options) ==
  CHOOSE i \in 1..Len(options) :
    /\ \A j \in 1..Len(options) : scoreSchemaOption(options[j]).score <= scoreSchemaOption(options[i]).score
    /\ \A j \in 1..(i - 1) : scoreSchemaOption(options[j]).score < scoreSchemaOption(options[i]).score

\* the own enumerable entries of v as an object ({...v}, Object.entries(v))
EntriesObj(v) ==
  IF IsObj(v) THEN v
  ELSE IF IsArr(v)
  THEN Obj([k \in {NumTok(i - 1) : i \in 1..Len(v.arr)} |->
              v.arr[CHOOSE i \in 1..Len(v.arr) : NumTok(i - 1) = k]])
  ELSE EmptyObj

\* Array.from(new Set(seq)): primitives are merged by value, arrays and objects never
RECURSIVE UniqueValues(_)
UniqueValues(seq) ==
  IF Len(seq) = 0 THEN <<>>
  ELSE LET init == UniqueValues(SubSeq(seq, 1, Len(seq) - 1))
           last == seq[Len(seq)]
       IN  IF ~IsObjectLike(last) /\ \E i \in 1..Len(init) : init[i] = last
           THEN init ELSE Append(init, last)

RECURSIVE FilterSeq(_, _)
FilterSeq(seq, keep) ==
  IF Len(seq) = 0 THEN <<>>
  ELSE IF keep[1] THEN <<seq[1]>> \o FilterSeq(Tail(seq), Tail(keep))
  ELSE FilterSeq(Tail(seq), Tail(keep))

RECURSIVE flattenAnyOfOneOf(_)
RECURSIVE flattenUnion(_, _)

\* one round of the loop over ["anyOf", "oneOf"] of flattenAnyOfOneOf
flattenUnion(result, unionKey) ==
  IF ~(IsArr(Get(result, unionKey)) /\ Len(Get(result, unionKey).arr) > 0) THEN result
  ELSE LET options == Get(result, unionKey).arr
           parentDesc == DescOf(result)
           mergedEnum == tryMergeEnumFromUnion(options)
       IN  IF ~IsUndef(mergedEnum)
           THEN Put(Put(Del(result, {unionKey}), "type", Str("string")), "enum", mergedEnum)
           ELSE Let(flattenAnyOfOneOf(options[bestOption(options)]), LAMBDA flat :
                LET names == [i \in 1..Len(options) |-> scoreSchemaOption(options[i]).typeName]
                    allTypes == FilterSeq(names, [i \in 1..Len(names) |-> Truthy(names[i])])
                    sel0 == IF Truthy(flat) THEN flat ELSE Obj([type |-> Str("string")])
                    childDesc == DescOf(sel0)
                    sel1 == IF Len(parentDesc) > 0
                            THEN IF Len(childDesc) > 0 /\ childDesc # parentDesc
                                 THEN Put(EntriesObj(sel0), "description",
                                          Toks(parentDesc \o <<"(">> \o childDesc \o <<")">>))
                                 ELSE IF Len(childDesc) = 0
                                 THEN Put(EntriesObj(sel0), "description", Toks(parentDesc))
                                 ELSE sel0
                            ELSE sel0
                    uniqueTypes == UniqueValues(allTypes)
                    sel2 == IF Len(allTypes) > 1
                            THEN appendDescriptionHint(sel1,
                                   <<"Accepts:">> \o
                                   JoinToks([i \in 1..Len(uniqueTypes) |-> ToStr(uniqueTypes[i])], "|"))
                            ELSE sel1
                IN  Spread(Del(result, {unionKey, "description"}), EntriesObj(sel2)))

\* Phase 2b
flattenAnyOfOneOf(s) ==
  IF IsArr(s) THEN Arr([i \in 1..Len(s.arr) |-> flattenAnyOfOneOf(s.arr[i])])
  ELSE IF ~IsObj(s) THEN s
  ELSE Let(flattenUnion(s, "anyOf"), LAMBDA a :
         Let(flattenUnion(a, "oneOf"), LAMBDA r :
           Obj([k \in DOMAIN r.obj |->
                  IF IsObjectLike(r.obj[k]) THEN flattenAnyOfOneOf(r.obj[k])
                  ELSE r.obj[k]])))

\* Phase 2c. atRoot: the call without a nullableFields map (the root schema), the only
\* one that filters `required`; the map's entry "" holds the root's nullable properties.
RECURSIVE flattenTypeArrays(_, _)
flattenTypeArrays(s, atRoot) ==
  IF IsArr(s) THEN Arr([i \in 1..Len(s.arr) |-> flattenTypeArrays(s.arr[i], FALSE)])
  ELSE IF ~IsObj(s) THEN s
  ELSE LET typed ==
             IF IsArr(Get(s, "type"))
             THEN LET types == Get(s, "type").arr
                      hasNull == \E i \in 1..Len(types) : IsStrEq(types[i], "null")
                      nonNullTypes == FilterSeq(types,
                                        [i \in 1..Len(types) |->
                                           ~IsStrEq(types[i], "null") /\ Truthy(types[i])])
                      firstType == IF Len(nonNullTypes) > 0 THEN nonNullTypes[1]
                                   ELSE Str("string")
                      t1 == Put(s, "type", firstType)
                      t2 == IF Len(nonNullTypes) > 1
                            THEN appendDescriptionHint(t1,
                                   <<"Accepts:">> \o
                                   JoinToks([i \in 1..Len(nonNullTypes) |->
                                               ToStr(nonNullTypes[i])], "|"))
                            ELSE t1
                  IN  IF hasNull THEN appendDescriptionHint(t2, <<"nullable">>) ELSE t2
             ELSE s
       IN  Let(typed, LAMBDA r1 :
             Let(Obj([k \in Keys(EntriesObj(Get(r1, "properties"))) |->
                        flattenTypeArrays(EntriesObj(Get(r1, "properties")).obj[k], FALSE)]),
                 LAMBDA newProps :
               LET props == Get(r1, "properties")
                   r2 == IF IsObjectLike(props) THEN Put(r1, "properties", newProps) ELSE r1
                   nullableAtRoot ==
                     IF IsObjectLike(props)
                     THEN {k \in Keys(newProps) : HasTok(DescOf(newProps.obj[k]), "nullable")}
                     ELSE {}
                   req == Get(r2, "required")
                   kept == IF IsArr(req)
                           THEN FilterSeq(req.arr, [i \in 1..Len(req.arr) |->
                                  ~(IsStr(req.arr[i]) /\ Len(req.arr[i].str) = 1
                                    /\ req.arr[i].str[1] \in nullableAtRoot)])
                           ELSE <<>>
                   filtered == IF IsArr(req) /\ atRoot /\ nullableAtRoot # {}
                               THEN IF Len(kept) = 0 THEN Del(r2, {"required"})
                                    ELSE Put(r2, "required", Arr(kept))
                               ELSE r2
               IN  Let(filtered, LAMBDA r3 :
                     Obj([k \in DOMAIN r3.obj |->
                            IF k # "properties" /\ IsObjectLike(r3.obj[k])
                            THEN flattenTypeArrays(r3.obj[k], FALSE)
                            ELSE r3.obj[k]]))))

\* Phase 3
\* removeUnsupportedKeywords handing insideProperties = true down to the schemas of a
\* properties map, so that their keywords are kept like property names
RECURSIVE removeUnsupportedKeywordsBelowProperties(_, _)
removeUnsupportedKeywordsBelowProperties(s, insideProperties) ==
  IF IsArr(s)
  THEN Arr([i \in 1..Len(s.arr) |-> removeUnsupportedKeywordsBelowProperties(s.arr[i], FALSE)])
  ELSE IF ~IsObj(s) THEN s
  ELSE LET keys == {k \in DOMAIN s.obj : insideProperties \/ k \notin UNSUPPORTED_KEYWORDS}
       IN  Obj([k \in keys |->
                  IF ~IsObjectLike(s.obj[k]) THEN s.obj[k]
                  ELSE IF k = "properties"
                  THEN Obj([p \in Keys(EntriesObj(s.obj[k])) |->
                              removeUnsupportedKeywordsBelowProperties(
                                EntriesObj(s.obj[k]).obj[p], TRUE)])
                  ELSE removeUnsupportedKeywordsBelowProperties(s.obj[k], FALSE)])

RECURSIVE removeUnsupportedKeywords(_, _)
removeUnsupportedKeywords(s, insideProperties) ==
  IF IsArr(s) THEN Arr([i \in 1..Len(s.arr) |-> removeUnsupportedKeywords(s.arr[i], FALSE)])
  ELSE IF ~IsObj(s) THEN s
  ELSE LET keys == {k \in DOMAIN s.obj : insideProperties \/ k \notin UNSUPPORTED_KEYWORDS}
       IN  Obj([k \in keys |->
                  IF ~IsObjectLike(s.obj[k]) THEN s.obj[k]
                  ELSE IF k = "properties"
                  THEN Obj([p \in Keys(EntriesObj(s.obj[k])) |->
                              removeUnsupportedKeywords(EntriesObj(s.obj[k]).obj[p], FALSE)])
                  ELSE removeUnsupportedKeywords(s.obj[k], FALSE)])

\* Phase 3b
RECURSIVE cleanupRequiredFields(_)
cleanupRequiredFields(s) ==
  IF IsArr(s) THEN Arr([i \in 1..Len(s.arr) |-> cleanupRequiredFields(s.arr[i])])
  ELSE IF ~IsObj(s) THEN s
  ELSE LET req == Get(s, "required")
           props == Get(s, "properties")
           validRequired == IF IsArr(req)
                            THEN FilterSeq(req.arr, [i \in 1..Len(req.arr) |->
                                   Len(ToStr(req.arr[i])) = 1
                                   /\ ToStr(req.arr[i])[1] \in Keys(EntriesObj(props))])
                            ELSE <<>>
           checked == IF IsArr(req) /\ IsObjectLike(props)
                      THEN IF Len(validRequired) = 0 THEN Del(s, {"required"})
                           ELSE IF Len(validRequired) # Len(req.arr)
                           THEN Put(s, "required", Arr(validRequired))
                           ELSE s
                      ELSE s
       IN  Let(checked, LAMBDA r :
             Obj([k \in DOMAIN r.obj |->
                    IF IsObjectLike(r.obj[k]) THEN cleanupRequiredFields(r.obj[k])
                    ELSE r.obj[k]]))

PlaceholderProperties ==
  Obj((EMPTY_SCHEMA_PLACEHOLDER_NAME :>
         Obj([type |-> Str("boolean"),
              description |-> Toks(EMPTY_SCHEMA_PLACEHOLDER_DESCRIPTION)])))

\* addEmptySchemaPlaceholder testing only that a properties map is present, not that
\* it has an entry
RECURSIVE addEmptySchemaPlaceholderUnlessPresent(_)
addEmptySchemaPlaceholderUnlessPresent(s) ==
  IF IsArr(s)
  THEN Arr([i \in 1..Len(s.arr) |-> addEmptySchemaPlaceholderUnlessPresent(s.arr[i])])
  ELSE IF ~IsObj(s) THEN s
  ELSE LET isObjectType == IsStrEq(Get(s, "type"), "object")
           props == Get(s, "properties")
           hasProperties == IsObjectLike(props)
           filled == IF isObjectType /\ ~hasProperties
                     THEN Put(Put(s, "properties", PlaceholderProperties),
                              "required", Arr(<<Str(EMPTY_SCHEMA_PLACEHOLDER_NAME)>>))
                     ELSE s
       IN  Let(filled, LAMBDA r :
             Obj([k \in DOMAIN r.obj |->
                    IF IsObjectLike(r.obj[k])
                    THEN addEmptySchemaPlaceholderUnlessPresent(r.obj[k])
                    ELSE r.obj[k]]))

\* Phase 4
RECURSIVE addEmptySchemaPlaceholder(_)
addEmptySchemaPlaceholder(s) ==
  IF IsArr(s) THEN Arr([i \in 1..Len(s.arr) |-> addEmptySchemaPlaceholder(s.arr[i])])
  ELSE IF ~IsObj(s) THEN s
  ELSE LET isObjectType == IsStrEq(Get(s, "type"), "object")
           props == Get(s, "properties")
           hasProperties == IsObjectLike(props) /\ Keys(EntriesObj(props)) # {}
           filled == IF isObjectType /\ ~hasProperties
                     THEN Put(Put(s, "properties", PlaceholderProperties),
                              "required", Arr(<<Str(EMPTY_SCHEMA_PLACEHOLDER_NAME)>>))
                     ELSE s
       IN  Let(filled, LAMBDA r :
             Obj([k \in DOMAIN r.obj |->
                    IF IsObjectLike(r.obj[k]) THEN addEmptySchemaPlaceholder(r.obj[k])
                    ELSE r.obj[k]]))

cleanJSONSchemaForAntigravity(s) ==
  IF ~IsObjectLike(s) THEN s
  ELSE \* Phase 1: convert and add hints
       Let(convertRefsToHints(s), LAMBDA r1 :
       Let(convertConstToEnum(r1), LAMBDA r2 :
       Let(addEnumHints(r2), LAMBDA r3 :
       Let(addAdditionalPropertiesHints(r3), LAMBDA r4 :
       Let(moveConstraintsToDescription(r4), LAMBDA r5 :
       \* Phase 2: flatten complex structures
       Let(mergeAllOf(r5), LAMBDA r6 :
       Let(flattenAnyOfOneOf(r6), LAMBDA r7 :
       Let(flattenTypeArrays(r7, TRUE), LAMBDA r8 :
       \* Phase 3: cleanup
       Let(removeUnsupportedKeywords(r8, FALSE), LAMBDA r9 :
       Let(cleanupRequiredFields(r9), LAMBDA r10 :
       \* Phase 4: placeholder for empty object schemas
       addEmptySchemaPlaceholder(r10)))))))))))

\* ------------------------------------------------------------- tool schemas given to the cleaner
EnumTok(i) == CASE i = 1 -> "a" [] i = 2 -> "b" [] i = 3 -> "c" [] OTHER -> "z"
EnumLists == {Arr([i \in 1..n |-> Str(EnumTok(i))]) : n \in 1..MaxEnum}
StringSchema == Obj([type |-> Str("string")])
NullSchema == Obj([type |-> Str("null")])

LeafShapes ==
  {[type |-> Str("string")],
   [type |-> Arr(<<Str("string"), Str("null")>>)],
   [type |-> Arr(<<Str("string"), Str("number")>>)],
   [type |-> Str("string"), minLength |-> Num(1)],
   [type |-> Str("string"), pattern |-> Str("p"), format |-> Str("f")],
   [type |-> Str("string"), default |-> JNull],
   [type |-> Str("string"), examples |-> Arr(<<Str("a")>>)],
   [const |-> Str("a")],
   ("$ref" :> Toks(<<"#", "/", "$defs", "/", "Foo">>)),
   [type |-> Str("object")],
   [type |-> Arr(<<Str("object"), Str("null")>>)],
   [type |-> Str("object"), properties |-> EmptyObj, required |-> Arr(<<Str("x")>>)],
   [type |-> Str("object"), additionalProperties |-> JFalse,
    properties |-> Obj([a |-> StringSchema])],
   [type |-> Str("string"), title |-> Str("t")],
   [type |-> Str("string"), readOnly |-> JTrue],
   [anyOf |-> Arr(<<Obj([const |-> Str("a")]), Obj([const |-> Str("b")])>>)],
   [anyOf |-> Arr(<<Obj([type |-> Str("string"), minLength |-> Num(1)]), NullSchema>>)],
   [oneOf |-> Arr(<<StringSchema,
                    Obj([type |-> Str("object"), title |-> Str("t"),
                         properties |-> Obj([a |-> StringSchema])])>>)],
   [type |-> Str("object"),
    allOf |-> Arr(<<Obj([properties |-> Obj([a |-> StringSchema]),
                         required |-> Arr(<<Str("a")>>)]),
                    Obj([properties |-> Obj([b |-> StringSchema]), title |-> Str("t")])>>)],
   [type |-> Str("object"), title |-> Str("top"),
    properties |-> Obj([a |-> StringSchema]), required |-> Arr(<<Str("a")>>),
    allOf |-> Arr(<<Obj([title |-> Str("member"), type |-> Str("array"),
                         properties |-> Obj([a |-> Obj([type |-> Str("number")]),
                                             b |-> StringSchema]),
                         required |-> Arr(<<Str("a"), Str("b")>>)])>>)],
   [anyOf |-> Arr(<<>>)]}
  \cup {[type |-> Str("string"), enum |-> e] : e \in EnumLists}

DescriptionChoices == {EmptyFn, [description |-> Str("d")], [description |-> Str("nullable")]}

Leaves == {Obj(d @@ f) : f \in LeafShapes, d \in DescriptionChoices}

PropertyNames == {"a", "const", "pattern"}

RECURSIVE Schemas(_)
Schemas(depth) ==
  IF depth = 0 THEN Leaves
  ELSE LET sub == Schemas(depth - 1)
       IN  Leaves
           \cup {Obj([type |-> Str("object"), properties |-> Obj((k :> x)),
                      required |-> Arr(<<Str(k)>>)]) : k \in PropertyNames, x \in sub}
           \cup {Obj([type |-> Str("object"),
                      properties |-> Obj([a |-> x, b |-> StringSchema]),
                      required |-> Arr(<<Str("a"), Str("b"), Str("ghost")>>)]) : x \in sub}
           \cup {Obj([type |-> Str("array"), items |-> x]) : x \in sub}
           \cup {Obj([anyOf |-> Arr(<<x, NullSchema>>)]) : x \in sub}

SchemaInputs == Schemas(MaxDepth)

\* ------------------------------------------------------------- model names
\* A model name is the sequence of its "-"-separated tokens: "gemini-3-pro-high" is
\* <<"gemini", "3", "pro", "high">>.  No token of the names used here is part of
\* another one, "gpt4o" aside, which starts with "gpt".
Lower(tok) ==
  CASE tok = "Antigravity" -> "antigravity"
    [] tok = "Claude" -> "claude"
    [] tok = "GPT" -> "gpt"
    [] tok = "Thinking" -> "thinking"
    [] OTHER -> tok

toLowerCase(m) == [i \in 1..Len(m) |-> Lower(m[i])]

TokenStartsWith(tok, p) == tok = p \/ (tok = "gpt4o" /\ p = "gpt")

StartsWith(m, p) == Len(m) >= Len(p) /\ SubSeq(m, 1, Len(p)) = p
Includes(m, p) == \E i \in 1..(Len(m) - Len(p) + 1) : SubSeq(m, i, i + Len(p) - 1) = p

ThinkingTiers == {"minimal", "low", "medium", "high"}

THINKING_TIER_BUDGETS ==
  [claude |-> [low |-> 8192, medium |-> 16384, high |-> 32768],
   gemini25pro |-> [low |-> 8192, medium |-> 16384, high |-> 32768],
   gemini25flash |-> [low |-> 6144, medium |-> 12288, high |-> 24576],
   default |-> [low |-> 4096, medium |-> 8192, high |-> 16384]]

MODEL_ALIASES ==
  (<<"gemini", "3", "pro", "low">> :> <<"gemini", "3", "pro">>)
  @@ (<<"gemini", "3", "pro", "high">> :> <<"gemini", "3", "pro">>)
  @@ (<<"gemini", "3", "flash", "low">> :> <<"gemini", "3", "flash">>)
  @@ (<<"gemini", "3", "flash", "medium">> :> <<"gemini", "3", "flash">>)
  @@ (<<"gemini", "3", "flash", "high">> :> <<"gemini", "3", "flash">>)
  @@ (<<"gemini", "claude", "sonnet", "4", "5">> :> <<"claude", "sonnet", "4", "5">>)
  @@ (<<"gemini", "claude", "sonnet", "4", "5", "thinking", "low">>
        :> <<"claude", "sonnet", "4", "5", "thinking">>)
  @@ (<<"gemini", "claude", "sonnet", "4", "5", "thinking", "medium">>
        :> <<"claude", "sonnet", "4", "5", "thinking">>)
  @@ (<<"gemini", "claude", "sonnet", "4", "5", "thinking", "high">>
        :> <<"claude", "sonnet", "4", "5", "thinking">>)
  @@ (<<"gemini", "claude", "opus", "4", "5", "thinking", "low">>
        :> <<"claude", "opus", "4", "5", "thinking">>)
  @@ (<<"gemini", "claude", "opus", "4", "5", "thinking", "medium">>
        :> <<"claude", "opus", "4", "5", "thinking">>)
  @@ (<<"gemini", "claude", "opus", "4", "5", "thinking", "high">>
        :> <<"claude", "opus", "4", "5", "thinking">>)
  @@ (<<"gemini", "3", "pro", "image", "preview">> :> <<"gemini", "3", "pro", "image">>)

MODEL_FALLBACKS ==
  (<<"gemini", "2.5", "flash", "image">> :> <<"gemini", "2.5", "flash">>)

\* QUOTA_PREFIX_REGEX.test(requestedModel): /^antigravity-/i
hasQuotaPrefix(requestedModel) ==
  Len(requestedModel) >= 2 /\ Lower(requestedModel[1]) = "antigravity"

\* ANTIGRAVITY_ONLY_MODELS.test(model): /^(claude|gpt)/i
isAntigravityOnly(model) ==
  Len(model) >= 1 /\ \E p \in {"claude", "gpt"} : TokenStartsWith(Lower(model[1]), p)

supportsThinkingTiers(model) ==
  LET lower == toLowerCase(model)
  IN  \/ Includes(lower, <<"gemini", "3">>)
      \/ Includes(lower, <<"gemini", "2.5">>)
      \/ (Includes(lower, <<"claude">>) /\ Includes(lower, <<"thinking">>))

\* the tier suffix, or "" for none
extractThinkingTierFromModel(model) ==
  IF ~supportsThinkingTiers(model) THEN ""
  ELSE IF Len(model) > 1 /\ model[Len(model)] \in ThinkingTiers THEN model[Len(model)]
  ELSE ""

getBudgetFamily(model) ==
  IF Includes(model, <<"claude">>) THEN "claude"
  ELSE IF Includes(model, <<"gemini", "2.5", "pro">>) THEN "gemini25pro"
  ELSE IF Includes(model, <<"gemini", "2.5", "flash">>) THEN "gemini25flash"
  ELSE "default"

isThinkingCapableModel(model) ==
  LET lower == toLowerCase(model)
  IN  \/ Includes(lower, <<"thinking">>)
      \/ Includes(lower, <<"gemini", "3">>)
      \/ Includes(lower, <<"gemini", "2.5">>)

\* resolveModelWithTier: quotaPreference
quotaPreferenceOfPrefixOnly(isAntigravity, modelWithoutQuota) ==
  IF isAntigravity THEN "antigravity" ELSE "gemini-cli"

quotaPreferenceOf(isAntigravity, modelWithoutQuota) ==
  IF isAntigravity \/ isAntigravityOnly(modelWithoutQuota) THEN "antigravity" ELSE "gemini-cli"

\* resolveModelWithTier: antigravityModel, the name kept for a prefixed Gemini 3 id
antigravityModelOfUnchanged(modelWithoutQuota, tier, baseName) == modelWithoutQuota

antigravityModelOf(modelWithoutQuota, tier, baseName) ==
  LET lower == toLowerCase(modelWithoutQuota)
      isGemini3Pro == StartsWith(lower, <<"gemini", "3", "pro">>)
      isGemini3Flash == StartsWith(lower, <<"gemini", "3", "flash">>)
  IN  IF isGemini3Pro /\ tier = "" THEN Append(modelWithoutQuota, "low")
      ELSE IF isGemini3Flash /\ tier # "" THEN baseName
      ELSE modelWithoutQuota

\* resolveModelWithTier: the thinking fields of the result
thinkingFieldsOfBudgetOnly(resolvedModel, tier) ==
  IF tier = "" THEN [isThinkingModel |-> isThinkingCapableModel(resolvedModel)]
  ELSE [thinkingBudget |->
          THINKING_TIER_BUDGETS[getBudgetFamily(resolvedModel)][IF tier = "minimal" THEN "low"
                                                                 ELSE tier],
        tier |-> tier, isThinkingModel |-> isThinkingCapableModel(resolvedModel)]

thinkingFieldsOf(resolvedModel, tier) ==
  LET lower == toLowerCase(resolvedModel)
      isEffectiveGemini3 == Includes(lower, <<"gemini", "3">>)
      isClaudeThinking == Includes(lower, <<"claude">>) /\ Includes(lower, <<"thinking">>)
      budgetTier == IF tier = "minimal" THEN "low" ELSE tier
  IN  IF tier = ""
      THEN IF isEffectiveGemini3 THEN [thinkingLevel |-> "low", isThinkingModel |-> TRUE]
           ELSE IF isClaudeThinking
           THEN [thinkingBudget |-> THINKING_TIER_BUDGETS.claude.high, isThinkingModel |-> TRUE]
           ELSE [isThinkingModel |-> isThinkingCapableModel(resolvedModel)]
      ELSE IF isEffectiveGemini3
      THEN [thinkingLevel |-> tier, tier |-> tier, isThinkingModel |-> TRUE]
      ELSE [thinkingBudget |-> THINKING_TIER_BUDGETS[getBudgetFamily(resolvedModel)][budgetTier],
            tier |-> tier, isThinkingModel |-> isThinkingCapableModel(resolvedModel)]

\* the result has the fields actualModel, isThinkingModel, quotaPreference, explicitQuota
\* and, when they are set, thinkingLevel, thinkingBudget, tier
resolveModelWithTier(requestedModel) ==
  LET isAntigravity == hasQuotaPrefix(requestedModel)
      modelWithoutQuota == IF isAntigravity THEN Tail(requestedModel) ELSE requestedModel
      tier == extractThinkingTierFromModel(modelWithoutQuota)
      baseName == IF tier # "" THEN SubSeq(modelWithoutQuota, 1, Len(modelWithoutQuota) - 1)
                  ELSE modelWithoutQuota
      isGemini3 == StartsWith(toLowerCase(modelWithoutQuota), <<"gemini", "3">>)
      skipAlias == isAntigravity /\ isGemini3
      actualModel == IF skipAlias THEN antigravityModelOf(modelWithoutQuota, tier, baseName)
                     ELSE IF modelWithoutQuota \in DOMAIN MODEL_ALIASES
                     THEN MODEL_ALIASES[modelWithoutQuota]
                     ELSE IF baseName \in DOMAIN MODEL_ALIASES THEN MODEL_ALIASES[baseName]
                     ELSE baseName
      resolvedModel == IF actualModel \in DOMAIN MODEL_FALLBACKS
                       THEN MODEL_FALLBACKS[actualModel] ELSE actualModel
  IN  [actualModel |-> resolvedModel,
       quotaPreference |-> quotaPreferenceOf(isAntigravity, modelWithoutQuota),
       explicitQuota |-> isAntigravity]
      @@ thinkingFieldsOf(resolvedModel, tier)

isClaudeModel(model) == Includes(toLowerCase(model), <<"claude">>)
isClaudeThinkingModel(model) ==
  Includes(toLowerCase(model), <<"claude">>) /\ Includes(toLowerCase(model), <<"thinking">>)

\* ------------------------------------------------------------- chat messages and wire turns
\* A text is the sequence of its pieces, <<>> the empty string.
\* A chat message is [role, content]; a content part is a text part [kind |-> "text",
\* value], a tool call [kind |-> "call", callId, name] or a tool result
\* [kind |-> "result", callId].  A wire turn is [role, parts]; a wire part is [text],
\* [functionCall (, thoughtSignature)], [functionResponse] or
\* [thought, text, thoughtSignature].
Field(r, f) == IF f \in DOMAIN r THEN r[f] ELSE Undef
MapGet(map, key) == IF key \in DOMAIN map THEN map[key] ELSE Undef
EmptyMap == [k \in {} |-> Undef]

IsCall(part) == "functionCall" \in DOMAIN part
IsResponse(part) == "functionResponse" \in DOMAIN part
HasSignature(part) == "thoughtSignature" \in DOMAIN part

SelectParts(parts, Keep(_)) ==
  LET RECURSIVE sel(_)
      sel(i) == IF i > Len(parts) THEN <<>>
                ELSE IF Keep(parts[i]) THEN <<parts[i]>> \o sel(i + 1)
                ELSE sel(i + 1)
  IN  sel(1)

functionCallPart(name, callId, signature) ==
  IF signature = Undef THEN [functionCall |-> [name |-> name, id |-> callId]]
  ELSE [functionCall |-> [name |-> name, id |-> callId], thoughtSignature |-> signature]

\* convertMessages with the results of an assistant message left in its own turn
RECURSIVE convertPartsInline(_, _, _, _, _)
convertPartsInline(content, i, role, st, opts) ==
  IF i > Len(content) THEN st
  ELSE LET part == content[i]
           recorded == MapGet(opts.signatureByCallId, part.callId)
           signature == IF recorded # Undef THEN recorded
                        ELSE IF opts.allowFallbackSignature THEN opts.fallbackSignature
                        ELSE Undef
           toolResponse == [functionResponse |->
                              [name |-> IF part.callId \in DOMAIN st.toolNameById
                                        THEN st.toolNameById[part.callId] ELSE "tool",
                               id |-> part.callId]]
           next ==
             IF part.kind = "text"
             THEN IF part.value # <<>> THEN [st EXCEPT !.parts = Append(@, [text |-> part.value])]
                  ELSE st
             ELSE IF ~opts.allowToolHistory THEN st
             ELSE IF part.kind = "call"
             THEN [st EXCEPT !.toolNameById = (part.callId :> part.name) @@ @,
                             !.parts = Append(@, functionCallPart(part.name, part.callId,
                                                                  signature))]
             ELSE [st EXCEPT !.parts = Append(@, toolResponse)]
       IN  Let(next, LAMBDA n : convertPartsInline(content, i + 1, role, n, opts))

\* convertMessages: the loop over message.content from part i on;
\* st = [parts, toolResultParts, toolNameById]
RECURSIVE convertParts(_, _, _, _, _)
convertParts(content, i, role, st, opts) ==
  IF i > Len(content) THEN st
  ELSE LET part == content[i]
           recorded == MapGet(opts.signatureByCallId, part.callId)
           signature == IF recorded # Undef THEN recorded
                        ELSE IF opts.allowFallbackSignature THEN opts.fallbackSignature
                        ELSE Undef
           toolResponse == [functionResponse |->
                              [name |-> IF part.callId \in DOMAIN st.toolNameById
                                        THEN st.toolNameById[part.callId] ELSE "tool",
                               id |-> part.callId]]
           next ==
             IF part.kind = "text"
             THEN IF part.value # <<>> THEN [st EXCEPT !.parts = Append(@, [text |-> part.value])]
                  ELSE st
             ELSE IF ~opts.allowToolHistory THEN st
             ELSE IF part.kind = "call"
             THEN [st EXCEPT !.toolNameById = (part.callId :> part.name) @@ @,
                             !.parts = Append(@, functionCallPart(part.name, part.callId,
                                                                  signature))]
             ELSE IF role = "model"
             THEN [st EXCEPT !.toolResultParts = Append(@, toolResponse)]
             ELSE [st EXCEPT !.parts = Append(@, toolResponse)]
       IN  Let(next, LAMBDA n : convertParts(content, i + 1, role, n, opts))

\* toTextParts(message.content) is not empty
hasText(content) == \E i \in 1..Len(content) : content[i].kind = "text" /\ content[i].value # <<>>

\* convertMessages: the loop over messages from message i on;
\* acc = [contents, systemParts, toolNameById]
RECURSIVE convertFrom(_, _, _, _)
convertFrom(msgs, i, acc, opts) ==
  IF i > Len(msgs) THEN acc
  ELSE LET message == msgs[i]
           role == IF message.role = "assistant" THEN "model" ELSE "user"
           next ==
             IF message.role = "system"
             THEN IF hasText(message.content)
                  THEN [acc EXCEPT !.systemParts = Append(@, i)]
                  ELSE acc
             ELSE LET st == convertParts(message.content, 1, role,
                                         [parts |-> <<>>, toolResultParts |-> <<>>,
                                          toolNameById |-> acc.toolNameById], opts)
                      c1 == IF Len(st.parts) > 0
                            THEN Append(acc.contents, [role |-> role, parts |-> st.parts])
                            ELSE acc.contents
                      c2 == IF Len(st.toolResultParts) > 0
                            THEN Append(c1, [role |-> "user", parts |-> st.toolResultParts])
                            ELSE c1
                  IN  [acc EXCEPT !.contents = c2, !.toolNameById = st.toolNameById]
       IN  Let(next, LAMBDA n : convertFrom(msgs, i + 1, n, opts))

convertMessages(msgs, signatureByCallId, fallbackSignature, allowToolHistory, allowFallbackSignature) ==
  convertFrom(msgs, 1, [contents |-> <<>>, systemParts |-> <<>>, toolNameById |-> EmptyMap],
              [signatureByCallId |-> signatureByCallId, fallbackSignature |-> fallbackSignature,
               allowToolHistory |-> allowToolHistory,
               allowFallbackSignature |-> allowFallbackSignature])

hasToolHistory(msgs) ==
  \E i \in 1..Len(msgs) : \E j \in 1..Len(msgs[i].content) :
    msgs[i].content[j].kind \in {"call", "result"}

CallIds(parts) ==
  {parts[j].functionCall.id : j \in {k \in 1..Len(parts) : IsCall(parts[k])}} \ {""}
ResponseIds(parts) ==
  {parts[j].functionResponse.id : j \in {k \in 1..Len(parts) : IsResponse(parts[k])}} \ {""}

\* enforceGeminiToolPairing with a matched model turn kept whole
RECURSIVE pairFromKeepingTurn(_, _, _)
pairFromKeepingTurn(contents, idx, normalized) ==
  IF idx > Len(contents) THEN normalized
  ELSE LET current == contents[idx]
           parts == current.parts
           hasToolCalls == \E j \in 1..Len(parts) : IsCall(parts[j])
           hasNext == idx + 1 <= Len(contents)
           nextParts == IF hasNext THEN contents[idx + 1].parts ELSE <<>>
           matchedIds == CallIds(parts) \cap ResponseIds(nextParts)
           filteredModelParts ==
             SelectParts(parts, LAMBDA p : ~IsCall(p) \/ p.functionCall.id \in matchedIds)
           filteredUserParts ==
             SelectParts(nextParts,
                         LAMBDA p : ~IsResponse(p) \/ p.functionResponse.id \in matchedIds)
           nonToolParts == SelectParts(parts, LAMBDA p : ~IsCall(p))
           n1 == IF Len(filteredModelParts) > 0
                 THEN Append(normalized, current)
                 ELSE normalized
           n2 == IF Len(filteredUserParts) > 0
                 THEN Append(n1, [contents[idx + 1] EXCEPT !.parts = filteredUserParts])
                 ELSE n1
       IN  IF ~hasToolCalls \/ current.role # "model"
           THEN Let(Append(normalized, current), LAMBDA n : pairFromKeepingTurn(contents, idx + 1, n))
           ELSE IF matchedIds # {} /\ hasNext /\ contents[idx + 1].role = "user"
           THEN Let(n2, LAMBDA n : pairFromKeepingTurn(contents, idx + 2, n))
           ELSE Let(IF Len(nonToolParts) > 0
                    THEN Append(normalized, [current EXCEPT !.parts = nonToolParts])
                    ELSE normalized,
                    LAMBDA n : pairFromKeepingTurn(contents, idx + 1, n))

\* enforceGeminiToolPairing: the while loop from idx on (idx counts from 1)
RECURSIVE pairFrom(_, _, _)
pairFrom(contents, idx, normalized) ==
  IF idx > Len(contents) THEN normalized
  ELSE LET current == contents[idx]
           parts == current.parts
           hasToolCalls == \E j \in 1..Len(parts) : IsCall(parts[j])
           hasNext == idx + 1 <= Len(contents)
           nextParts == IF hasNext THEN contents[idx + 1].parts ELSE <<>>
           matchedIds == CallIds(parts) \cap ResponseIds(nextParts)
           filteredModelParts ==
             SelectParts(parts, LAMBDA p : ~IsCall(p) \/ p.functionCall.id \in matchedIds)
           filteredUserParts ==
             SelectParts(nextParts,
                         LAMBDA p : ~IsResponse(p) \/ p.functionResponse.id \in matchedIds)
           nonToolParts == SelectParts(parts, LAMBDA p : ~IsCall(p))
           n1 == IF Len(filteredModelParts) > 0
                 THEN Append(normalized, [current EXCEPT !.parts = filteredModelParts])
                 ELSE normalized
           n2 == IF Len(filteredUserParts) > 0
                 THEN Append(n1, [contents[idx + 1] EXCEPT !.parts = filteredUserParts])
                 ELSE n1
       IN  IF ~hasToolCalls \/ current.role # "model"
           THEN Let(Append(normalized, current), LAMBDA n : pairFrom(contents, idx + 1, n))
           ELSE IF matchedIds # {} /\ hasNext /\ contents[idx + 1].role = "user"
           THEN Let(n2, LAMBDA n : pairFrom(contents, idx + 2, n))
           ELSE Let(IF Len(nonToolParts) > 0
                    THEN Append(normalized, [current EXCEPT !.parts = nonToolParts])
                    ELSE normalized,
                    LAMBDA n : pairFrom(contents, idx + 1, n))

enforceGeminiToolPairing(contents) == pairFrom(contents, 1, <<>>)

isThinkingPartThoughtOnly(part) == "thought" \in DOMAIN part /\ part.thought

isThinkingPart(part) ==
  \/ ("thought" \in DOMAIN part /\ part.thought)
  \/ ("type" \in DOMAIN part /\ part.type \in {"thinking", "redacted_thinking", "reasoning"})

\* the text of a thinking part: part.text, else part.thinking, else ""
thoughtText(part) ==
  IF "text" \in DOMAIN part THEN part.text
  ELSE IF "thinking" \in DOMAIN part THEN part.thinking
  ELSE <<>>

\* ensureClaudeThinkingToolHistory with the synthesized thought put after the parts
ensureClaudeThinkingToolHistoryAppending(contents, fallbackThought) ==
  [c \in 1..Len(contents) |->
     LET content == contents[c]
         parts == content.parts
         thinkingParts == SelectParts(parts, isThinkingPart)
         otherParts == SelectParts(parts, LAMBDA p : ~isThinkingPart(p))
         hasToolCalls == \E j \in 1..Len(otherParts) : IsCall(otherParts[j])
     IN  IF content.role # "model" \/ Len(parts) = 0 THEN content
         ELSE IF Len(thinkingParts) > 0 /\ ~isThinkingPart(parts[1])
         THEN [content EXCEPT !.parts = thinkingParts \o otherParts]
         ELSE IF /\ Len(thinkingParts) = 0 /\ hasToolCalls
                 /\ fallbackThought # Undef /\ fallbackThought.text # <<>>
         THEN [content EXCEPT !.parts =
                 parts \o <<[thought |-> TRUE, text |-> fallbackThought.text,
                             thoughtSignature |-> fallbackThought.signature]>>]
         ELSE content]

\* fallbackThought is Undef or [text, signature]; a thought text is a sequence of text
\* pieces, <<>> the empty string
ensureClaudeThinkingToolHistory(contents, fallbackThought) ==
  [c \in 1..Len(contents) |->
     LET content == contents[c]
         parts == content.parts
         thinkingParts == SelectParts(parts, isThinkingPart)
         otherParts == SelectParts(parts, LAMBDA p : ~isThinkingPart(p))
         hasToolCalls == \E j \in 1..Len(otherParts) : IsCall(otherParts[j])
     IN  IF content.role # "model" \/ Len(parts) = 0 THEN content
         ELSE IF Len(thinkingParts) > 0 /\ ~isThinkingPart(parts[1])
         THEN [content EXCEPT !.parts = thinkingParts \o otherParts]
         ELSE IF /\ Len(thinkingParts) = 0 /\ hasToolCalls
                 /\ fallbackThought # Undef /\ fallbackThought.text # <<>>
         THEN [content EXCEPT !.parts =
                 <<[thought |-> TRUE, text |-> fallbackThought.text,
                    thoughtSignature |-> fallbackThought.signature]>> \o parts]
         ELSE content]

\* buildRequestPayload: the contents of the payload.  hasTools: options.tools is not empty
buildRequestPayload(modelId, msgs, hasTools, headerStyle, signatureByCallId, fallbackThought) ==
  LET allowToolHistory == hasTools \/ hasToolHistory(msgs)
      allowFallbackSignature == isClaudeModel(modelId)
      fallbackSignature == IF fallbackThought = Undef THEN Undef ELSE fallbackThought.signature
  IN  Let(convertMessages(msgs, signatureByCallId, fallbackSignature, allowToolHistory,
                          allowFallbackSignature).contents, LAMBDA converted :
      Let(IF headerStyle = "gemini-cli" THEN enforceGeminiToolPairing(converted)
          ELSE converted, LAMBDA paired :
      IF isClaudeThinkingModel(modelId)
      THEN ensureClaudeThinkingToolHistory(paired, fallbackThought)
      ELSE paired))

\* ------------------------------------------------------------- responses
\* A signature is [by, n]: the backend that issued it and a serial number; the program
\* treats it as an opaque string.  A response part is [thought, text (, thoughtSignature)],
\* [text] or [functionCall (, thoughtSignature)]; the id "" is a call without id.
extractPartSignature(part) == Field(part, "thoughtSignature")

\* the empty string as a signature
EmptySignature == [empty |-> TRUE]

\* typeof signature === 'string'
signatureIsString(signature) == signature # Undef

\* if (signature): undefined and the empty string are not taken
signatureGiven(signature) == signature # Undef /\ signature # EmptySignature

ToolCallId(n) == CASE n = 1 -> "tool-call-1" [] n = 2 -> "tool-call-2" [] OTHER -> "tool-call-n"

hasToolCalls(contents) ==
  \E c \in 1..Len(contents) : \E j \in 1..Len(contents[c].parts) : IsCall(contents[c].parts[j])

\* extractThoughtSignature over the parts of one candidate, from part i on
RECURSIVE extractThoughtSignatureFrom(_, _, _)
extractThoughtSignatureFrom(parts, i, buffer) ==
  IF i > Len(parts) THEN Undef
  ELSE LET part == parts[i]
           signature == extractPartSignature(part)
           text == IF isThinkingPart(part) THEN thoughtText(part) ELSE <<>>
       IN  IF isThinkingPart(part) /\ signatureGiven(signature) /\ buffer \o text # <<>>
           THEN [text |-> buffer \o text, signature |-> signature]
           ELSE IF IsCall(part) /\ signatureGiven(signature)
           THEN [text |-> buffer \o text, signature |-> signature]
           ELSE extractThoughtSignatureFrom(parts, i + 1, buffer \o text)

extractThoughtSignature(parts) == extractThoughtSignatureFrom(parts, 1, <<>>)

injectCachedThinkingSignature(contents, cached) ==
  IF cached = Undef THEN contents
  ELSE IF cached.text = <<>> THEN contents
  ELSE [c \in 1..Len(contents) |->
          LET content == contents[c]
              parts == content.parts
              hasSignedThinking ==
                \E j \in 1..Len(parts) : isThinkingPart(parts[j]) /\ HasSignature(parts[j])
              injectedParts ==
                [j \in 1..Len(parts) |->
                   IF IsCall(parts[j]) /\ ~HasSignature(parts[j])
                   THEN [functionCall |-> parts[j].functionCall,
                         thoughtSignature |-> cached.signature]
                   ELSE parts[j]]
          IN  IF content.role # "model" THEN content
              ELSE IF ~\E j \in 1..Len(parts) : IsCall(parts[j]) THEN content
              ELSE IF hasSignedThinking THEN [content EXCEPT !.parts = injectedParts]
              ELSE [content EXCEPT !.parts =
                      <<[thought |-> TRUE, text |-> cached.text,
                         thoughtSignature |-> cached.signature]>> \o injectedParts]]

\* handleResponseParts over the parts of a response, from part i on;
\* st = [seed, buffer, cache, sink, reported]
RECURSIVE handleResponsePartsKeepingFirst(_, _, _)
handleResponsePartsKeepingFirst(parts, i, st) ==
  IF i > Len(parts) THEN st
  ELSE LET part == parts[i]
           signature == extractPartSignature(part)
           buffer == st.buffer \o thoughtText(part)
           idless == part.functionCall.id = ""
           callId == IF idless THEN ToolCallId(st.seed + 1) ELSE part.functionCall.id
           next ==
             IF isThinkingPart(part)
             THEN [st EXCEPT !.buffer = buffer,
                             !.cache = IF signatureGiven(signature) /\ buffer # <<>>
                                       THEN [text |-> buffer, signature |-> signature]
                                       ELSE @]
             ELSE IF "text" \in DOMAIN part
             THEN [st EXCEPT !.reported = Append(@, [kind |-> "text", value |-> part.text])]
             ELSE IF ~IsCall(part) THEN st
             ELSE [st EXCEPT
                     !.seed = IF idless THEN @ + 1 ELSE @,
                     !.cache = IF signatureGiven(signature)
                               THEN [text |-> st.buffer, signature |-> signature]
                               ELSE @,
                     !.sink = IF signatureGiven(signature) /\ callId \notin DOMAIN @
                              THEN (callId :> signature) @@ @
                              ELSE @,
                     !.reported = Append(@, [kind |-> "call", callId |-> callId,
                                             name |-> part.functionCall.name])]
       IN  Let(next, LAMBDA n : handleResponsePartsKeepingFirst(parts, i + 1, n))

RECURSIVE handleResponseParts(_, _, _)
handleResponseParts(parts, i, st) ==
  IF i > Len(parts) THEN st
  ELSE LET part == parts[i]
           signature == extractPartSignature(part)
           buffer == st.buffer \o thoughtText(part)
           idless == part.functionCall.id = ""
           callId == IF idless THEN ToolCallId(st.seed + 1) ELSE part.functionCall.id
           next ==
             IF isThinkingPart(part)
             THEN [st EXCEPT !.buffer = buffer,
                             !.cache = IF signatureGiven(signature) /\ buffer # <<>>
                                       THEN [text |-> buffer, signature |-> signature]
                                       ELSE @]
             ELSE IF "text" \in DOMAIN part
             THEN [st EXCEPT !.reported = Append(@, [kind |-> "text", value |-> part.text])]
             ELSE IF ~IsCall(part) THEN st
             ELSE [st EXCEPT
                     !.seed = IF idless THEN @ + 1 ELSE @,
                     !.cache = IF signatureGiven(signature)
                               THEN [text |-> st.buffer, signature |-> signature]
                               ELSE @,
                     !.sink = IF signatureGiven(signature)
                              THEN (callId :> signature) @@ @
                              ELSE @,
                     !.reported = Append(@, [kind |-> "call", callId |-> callId,
                                             name |-> part.functionCall.name])]
       IN  Let(next, LAMBDA n : handleResponseParts(parts, i + 1, n))

\* handleResponseParts over the candidates of a response, from candidate i on; a
\* candidate is [parts] or, without content, [finishReason]
RECURSIVE handleCandidates(_, _, _)
handleCandidates(candidates, i, st) ==
  IF i > Len(candidates) THEN st
  ELSE Let(IF "parts" \in DOMAIN candidates[i]
           THEN handleResponseParts(candidates[i].parts, 1, st) ELSE st,
           LAMBDA n : handleCandidates(candidates, i + 1, n))

\* ------------------------------------------------------------- the event stream
\* The body is a sequence of symbols: "\n", "\r", and the pieces of a line.  An event
\* line is "data:" followed by the pieces of its JSON text, "{", the name of a response
\* and "}"; a chunk boundary can fall between any two symbols.
SigOf(k) == [by |-> [family |-> "gemini", route |-> "gemini-cli"], n |-> k]

StreamResponses ==
  [r1 |-> <<[parts |-> <<[thought |-> TRUE, text |-> <<"t">>, thoughtSignature |-> SigOf(1)],
                         [text |-> <<"hello">>]>>]>>,
   r2 |-> <<[parts |-> <<[functionCall |-> [name |-> "f", id |-> ""],
                          thoughtSignature |-> SigOf(2)]>>],
            [finishReason |-> "STOP"],
            [parts |-> <<[text |-> <<"world">>],
                         [functionCall |-> [name |-> "g", id |-> "y"]]>>]>>,
   r3 |-> <<[parts |-> <<[type |-> "reasoning", text |-> <<"u">>, thoughtSignature |-> SigOf(4)],
                         [type |-> "thinking", thinking |-> <<"v">>,
                          thoughtSignature |-> SigOf(3)],
                         [functionCall |-> [name |-> "f", id |-> ""]],
                         [inlineData |-> "png"]>>]>>]

Whitespace == {"\r", " "}

RECURSIVE trimStart(_)
trimStart(line) ==
  IF Len(line) > 0 /\ line[1] \in Whitespace THEN trimStart(Tail(line)) ELSE line

RECURSIVE trimEnd(_)
trimEnd(line) ==
  IF Len(line) > 0 /\ line[Len(line)] \in Whitespace
  THEN trimEnd(SubSeq(line, 1, Len(line) - 1)) ELSE line

trim(line) == trimEnd(trimStart(line))

\* streamResponse with lines taken as they are, not trimmed
parseSSELineResponseUntrimmed(line) ==
  IF Len(line) = 4 /\ line[1] = "data:" /\ line[2] = "{" /\ line[4] = "}"
     /\ line[3] \in DOMAIN StreamResponses
  THEN [candidates |-> StreamResponses[line[3]]]
  ELSE Undef

\* the response object of a JSON text, Undef when JSON.parse throws or the object has
\* no response field ("meta"); the table StreamResponses holds the candidates of each
\* response
parseJson(payload) ==
  IF Len(payload) = 3 /\ payload[1] = "{" /\ payload[3] = "}"
     /\ payload[2] \in DOMAIN StreamResponses
  THEN [candidates |-> StreamResponses[payload[2]]]
  ELSE Undef

parseSSELineResponse(line) ==
  LET trimmed == trim(line)
      payload == trim(Tail(trimmed))
  IN  IF Len(trimmed) = 0 \/ trimmed[1] # "data:" THEN Undef
      ELSE IF payload = <<>> \/ payload = <<"[DONE]">> THEN Undef
      ELSE parseJson(payload)

\* text.split("\n"): the segments before each "\n" and the segment after the last one
RECURSIVE splitFrom(_, _, _, _)
splitFrom(text, i, current, lines) ==
  IF i > Len(text) THEN [lines |-> lines, rest |-> current]
  ELSE IF text[i] = "\n" THEN splitFrom(text, i + 1, <<>>, Append(lines, current))
  ELSE splitFrom(text, i + 1, Append(current, text[i]), lines)

\* streamResponse: for (const line of lines)
RECURSIVE handleLines(_, _, _)
handleLines(lines, i, st) ==
  IF i > Len(lines) THEN st
  ELSE Let(parseSSELineResponse(lines[i]), LAMBDA responsePayload :
       Let(IF responsePayload = Undef THEN st
           ELSE handleCandidates(responsePayload.candidates, 1, st),
           LAMBDA n : handleLines(lines, i + 1, n)))

\* streamResponse with the last fragment parsed at once instead of held back
streamChunkEager(buffer, chunk, st) ==
  Let(splitFrom(buffer \o chunk, 1, <<>>, <<>>), LAMBDA sp :
    [buffer |-> <<>>, st |-> handleLines(Append(sp.lines, sp.rest), 1, st)])

\* streamResponse: one turn of the read loop after a chunk arrived
streamChunk(buffer, chunk, st) ==
  Let(splitFrom(buffer \o chunk, 1, <<>>, <<>>), LAMBDA sp :
    [buffer |-> sp.rest, st |-> handleLines(sp.lines, 1, st)])

\* ------------------------------------------------------------- message lists given to buildRequestPayload
TextPart(value) == [kind |-> "text", value |-> value]
ToolCallPart(callId, name) == [kind |-> "call", callId |-> callId, name |-> name]
ToolResultPart(callId) == [kind |-> "result", callId |-> callId]

UserText == [role |-> "user", content |-> <<TextPart(<<"hi">>)>>]
AssistantCallX == [role |-> "assistant", content |-> <<TextPart(<<>>), ToolCallPart("x", "f")>>]
AssistantCallXY == [role |-> "assistant", content |-> <<ToolCallPart("x", "f"), ToolCallPart("y", "g")>>]
AssistantCallResultX == [role |-> "assistant", content |-> <<ToolCallPart("x", "f"), ToolResultPart("x")>>]
UserResultX == [role |-> "user", content |-> <<ToolResultPart("x")>>]
UserResultYText == [role |-> "user", content |-> <<ToolResultPart("y"), TextPart(<<"hi">>)>>]
SystemText == [role |-> "system", content |-> <<TextPart(<<"sys">>)>>]

MessageAlphabet ==
  {UserText, AssistantCallX, AssistantCallXY, AssistantCallResultX, UserResultX,
   UserResultYText, SystemText}

MessageLists == UNION {[1..n -> MessageAlphabet] : n \in 0..MaxMessages}

GeminiFlash == <<"gemini", "2.5", "flash">>
ClaudeThinking == <<"claude", "sonnet", "4", "5", "thinking">>
GeminiClaudeThinkingLow == <<"gemini", "claude", "sonnet", "4", "5", "thinking", "low">>
AntigravityGemini3 == <<"antigravity", "gemini", "3", "pro", "high">>
Gemini3Preview == <<"gemini", "3", "pro", "preview">>

PayloadModels == {GeminiFlash, ClaudeThinking, GeminiClaudeThinkingLow}
SessionModels == {AntigravityGemini3, ClaudeThinking, Gemini3Preview}

\* the backend that answers a request for a model: its family and its quota route
Backend(modelId) ==
  [family |-> IF isClaudeModel(resolveModelWithTier(modelId).actualModel)
              THEN "claude" ELSE "gemini",
   route |-> resolveModelWithTier(modelId).quotaPreference]

\* the part lists a backend answers with; every signature of one response is sig
ResponseShapes(sig) ==
  {<<[text |-> <<"hello">>]>>,
   <<[thought |-> TRUE, text |-> <<"t">>, thoughtSignature |-> sig], [text |-> <<"hello">>]>>,
   <<[thought |-> TRUE, text |-> <<"t">>, thoughtSignature |-> sig],
     [functionCall |-> [name |-> "f", id |-> "x"]]>>,
   <<[functionCall |-> [name |-> "f", id |-> "x"], thoughtSignature |-> sig]>>,
   <<[thought |-> TRUE, text |-> <<"t">>],
     [functionCall |-> [name |-> "f", id |-> ""], thoughtSignature |-> sig],
     [functionCall |-> [name |-> "g", id |-> "y"]]>>,
   <<[functionCall |-> [name |-> "f", id |-> "x"]]>>,
   <<[thought |-> TRUE, text |-> <<"t">>, thoughtSignature |-> EmptySignature],
     [functionCall |-> [name |-> "f", id |-> "x"], thoughtSignature |-> EmptySignature]>>}

\* how a warmup request can end: with a signed thought, with a reply that has none, with
\* a status that is not ok, with a fetch that rejects, with a body that is not JSON
WarmupReturns == {"ok", "nosig", "status"}
WarmupThrowsOn == {"network", "badjson"}

\* warmupGeminiThinkingSignature when it returns
warmupGeminiThinkingSignature(modelId, outcome) ==
  IF outcome = "ok" THEN [text |-> <<"t">>, signature |-> [by |-> Backend(modelId), n |-> 0]]
  ELSE Undef

\* the messages the chat appends after a response: the assistant message made of the
\* reported parts, then the results of its tool calls or the next user message
FollowUp(reported) ==
  LET calls == SelectParts(reported, LAMBDA p : p.kind = "call")
  IN  (IF Len(reported) > 0 THEN <<[role |-> "assistant", content |-> reported]>> ELSE <<>>)
      \o (IF Len(calls) > 0
          THEN <<[role |-> "user",
                  content |-> [j \in 1..Len(calls) |-> ToolResultPart(calls[j].callId)]]>>
          ELSE <<UserText>>)

\* the signature recorded last for each call id, after a response whose tool calls were
\* reported as `reported`
LatestAfter(previous, parts, reported) ==
  LET calls == SelectParts(parts, IsCall)
      ids == SelectParts(reported, LAMBDA p : p.kind = "call")
      signed(id) == {j \in 1..Len(calls) :
                       ids[j].callId = id /\ signatureGiven(extractPartSignature(calls[j]))}
      last(id) == CHOOSE j \in signed(id) : \A k \in signed(id) : k <= j
      recorded == {ids[j].callId : j \in {k \in 1..Len(calls) :
                                             signatureGiven(extractPartSignature(calls[k]))}}
  IN  [id \in DOMAIN previous \cup recorded |->
         IF id \in recorded THEN calls[last(id)].thoughtSignature ELSE previous[id]]

\* the tool calls of a response that carried a signature, as they were emitted
IssuedBy(parts, reported) ==
  LET calls == SelectParts(parts, IsCall)
      ids == SelectParts(reported, LAMBDA p : p.kind = "call")
      pairs == [j \in 1..Len(calls) |->
                  [callId |-> ids[j].callId, signature |-> extractPartSignature(calls[j])]]
  IN  SelectParts(pairs, LAMBDA e : signatureGiven(e.signature))

\* ------------------------------------------------------------- parked parts of the state
SchemaParked == schema = Undef /\ cleaned = Undef /\ recleaned = Undef /\ stage = "off"
PayloadParked == chatMessages = <<>> /\ requestModel = <<>> /\ wire = <<>> /\ payloadContents = <<>> /\ pc = "off"
\* the record of the turn in progress or just ended: both caches as they were when the
\* turn started, whether a translated part of the reply carried a signature, and how
\* the turn ended
TurnStarted(thought, map) ==
  [before |-> [thought |-> thought, map |-> map], signed |-> FALSE, ended |-> "none"]

CarriesSignature(parts) ==
  \E j \in 1..Len(parts) :
    "thoughtSignature" \in DOMAIN parts[j] /\ parts[j].thoughtSignature # EmptySignature

NoTurn == TurnStarted(Undef, EmptyMap)

SessionParked ==
  /\ history = <<>> /\ toolCallSignatures = EmptyMap /\ lastThoughtSignature = Undef
  /\ phase = "off" /\ sent = Undef /\ turn = 0 /\ latest = EmptyMap
  /\ warmup = "none" /\ issued = <<>> /\ turnLog = NoTurn
ResolverParked == requestedId = <<>> /\ resolved = Undef
StreamParked ==
  /\ stream = <<>> /\ pos = 0 /\ lineBuffer = <<>> /\ streamState = Undef
  /\ cancelled = FALSE /\ streamPc = "off" /\ heldBack = FALSE
OverlapParked == inflight = <<>> /\ writes = <<>>

\* ------------------------------------------------------------- the cleaner applied to a tool schema
SchemaInit ==
  /\ schema \in SchemaInputs
  /\ cleaned = Undef
  /\ recleaned = Undef
  /\ stage = "input"
  /\ PayloadParked /\ SessionParked /\ ResolverParked /\ StreamParked /\ OverlapParked

\* buildTools: ensureObjectSchema(tool.inputSchema, cleanJSONSchemaForAntigravity)
CleanSchema ==
  /\ stage = "input"
  /\ cleaned' = cleanJSONSchemaForAntigravity(schema)
  /\ stage' = "cleaned"
  /\ UNCHANGED <<schema, recleaned, payloadVars, sessionVars, resolverVars, streamVars, overlapVars>>

\* normalizeClaudeTools: cleanJSONSchema(schema) on the declaration buildTools produced
CleanSchemaAgain ==
  /\ stage = "cleaned"
  /\ recleaned' = cleanJSONSchemaForAntigravity(cleaned)
  /\ stage' = "recleaned"
  /\ UNCHANGED <<schema, cleaned, payloadVars, sessionVars, resolverVars, streamVars, overlapVars>>

SchemaNext == CleanSchema \/ CleanSchemaAgain

SpecSchema == SchemaInit /\ [][SchemaNext]_vars

\* ------------------------------------------------------------- buildRequestPayload, step by step
\* the thought cached by the session when the payload is built
PayloadThought ==
  [text |-> <<"t">>, signature |-> [by |-> Backend(ClaudeThinking), n |-> 0]]

PayloadInit ==
  /\ chatMessages \in MessageLists
  /\ requestModel \in PayloadModels
  /\ wire = <<>>
  /\ payloadContents = <<>>
  /\ pc = "start"
  /\ SchemaParked
  /\ history = <<>> /\ toolCallSignatures = EmptyMap /\ lastThoughtSignature = PayloadThought
  /\ phase = "off" /\ sent = Undef /\ turn = 0 /\ latest = EmptyMap
  /\ warmup = "none" /\ issued = <<>> /\ turnLog = NoTurn
  /\ ResolverParked /\ StreamParked /\ OverlapParked

\* buildRequestPayload: convertMessages
ConvertMessagesStep ==
  /\ pc = "start"
  /\ wire' = convertMessages(chatMessages, toolCallSignatures, lastThoughtSignature.signature,
                             hasToolHistory(chatMessages),
                             isClaudeModel(resolveModelWithTier(requestModel).actualModel)).contents
  /\ payloadContents' = wire'
  /\ pc' = "converted"
  /\ UNCHANGED <<chatMessages, requestModel, schemaVars, sessionVars, resolverVars, streamVars, overlapVars>>

\* buildRequestPayload: if (headerStyle === 'gemini-cli') enforceGeminiToolPairing(contents)
PairingStep ==
  /\ pc = "converted"
  /\ payloadContents' = IF resolveModelWithTier(requestModel).quotaPreference = "gemini-cli"
                 THEN enforceGeminiToolPairing(payloadContents)
                 ELSE payloadContents
  /\ pc' = "paired"
  /\ UNCHANGED <<chatMessages, requestModel, wire, schemaVars, sessionVars, resolverVars, streamVars, overlapVars>>

\* buildRequestPayload: if (isClaudeThinkingModel(modelId)) ensureClaudeThinkingToolHistory
ClaudeThinkingStep ==
  /\ pc = "paired"
  /\ payloadContents' = IF isClaudeThinkingModel(resolveModelWithTier(requestModel).actualModel)
                 THEN ensureClaudeThinkingToolHistory(payloadContents, lastThoughtSignature)
                 ELSE payloadContents
  /\ pc' = "built"
  /\ UNCHANGED <<chatMessages, requestModel, wire, schemaVars, sessionVars, resolverVars, streamVars, overlapVars>>

PayloadNext == ConvertMessagesStep \/ PairingStep \/ ClaudeThinkingStep

SpecPayload == PayloadInit /\ [][PayloadNext]_vars

\* ------------------------------------------------------------- one provider instance over several requests
Init ==
  /\ history = <<UserText>>
  /\ toolCallSignatures = EmptyMap
  /\ lastThoughtSignature = Undef
  /\ phase = "idle"
  /\ sent = Undef
  /\ turn = 0
  /\ latest = EmptyMap
  /\ warmup = "none"
  /\ issued = <<>>
  /\ turnLog = NoTurn
  /\ SchemaParked /\ PayloadParked /\ ResolverParked /\ StreamParked /\ OverlapParked

\* the payload of a request for model m, and whether the warmup is due
RequestPayload(m) ==
  buildRequestPayload(resolveModelWithTier(m).actualModel, history, TRUE,
                      resolveModelWithTier(m).quotaPreference, toolCallSignatures,
                      lastThoughtSignature)

IsGemini3(m) == Includes(toLowerCase(resolveModelWithTier(m).actualModel), <<"gemini", "3">>)

WarmupDue(m, payload) == IsGemini3(m) /\ hasToolCalls(payload) /\ lastThoughtSignature = Undef

\* provideLanguageModelChatResponse up to the fetch: the payload is built, the thinking
\* signature is warmed up and injected for Gemini 3, and the request is sent
SendRequest ==
  /\ phase = "idle"
  /\ turn < MaxTurns
  /\ \E m \in SessionModels :
       \E payload \in {RequestPayload(m)} :
         \E outcome \in (IF WarmupDue(m, payload) THEN WarmupReturns ELSE {"none"}) :
           \E warm \in {IF outcome = "none" THEN lastThoughtSignature
                        ELSE warmupGeminiThinkingSignature(m, outcome)} :
             /\ warmup' = outcome
             /\ lastThoughtSignature' = warm
             /\ sent' = [model |-> m,
                         contents |-> IF IsGemini3(m)
                                      THEN injectCachedThinkingSignature(payload, warm)
                                      ELSE payload]
  /\ phase' = "awaiting"
  /\ turn' = turn + 1
  /\ turnLog' = TurnStarted(lastThoughtSignature, toolCallSignatures)
  /\ UNCHANGED <<history, toolCallSignatures, latest, issued, schemaVars, payloadVars,
                 resolverVars, streamVars, overlapVars>>

\* provideLanguageModelChatResponse: the await of warmupGeminiThinkingSignature rejects,
\* nothing catches it, and the call ends before the request is built into a fetch
WarmupThrows ==
  /\ phase = "idle"
  /\ turn < MaxTurns
  /\ \E m \in SessionModels :
       /\ WarmupDue(m, RequestPayload(m))
       /\ \E outcome \in WarmupThrowsOn : warmup' = outcome
  /\ sent' = Undef
  /\ turn' = turn + 1
  /\ turnLog' = [TurnStarted(lastThoughtSignature, toolCallSignatures) EXCEPT !.ended = "error"]
  /\ UNCHANGED <<history, toolCallSignatures, lastThoughtSignature, phase, latest, issued,
                 schemaVars, payloadVars, resolverVars, streamVars, overlapVars>>

\* provideLanguageModelChatResponse after the fetch: the parts of the response go through
\* handleResponseParts, and the chat goes on with what was reported
ReceiveResponse ==
  /\ phase = "awaiting"
  /\ \E parts \in ResponseShapes([by |-> Backend(sent.model), n |-> turn]) :
       \E st \in {handleResponseParts(parts, 1,
                                       [seed |-> 0, buffer |-> <<>>,
                                        cache |-> lastThoughtSignature,
                                        sink |-> toolCallSignatures, reported |-> <<>>])} :
         /\ toolCallSignatures' = st.sink
         /\ lastThoughtSignature' = st.cache
         /\ history' = history \o FollowUp(st.reported)
         /\ latest' = LatestAfter(latest, parts, st.reported)
         /\ issued' = issued \o IssuedBy(parts, st.reported)
         /\ turnLog' = [turnLog EXCEPT !.signed = CarriesSignature(parts), !.ended = "ok"]
  /\ phase' = "idle"
  /\ warmup' = "none"
  /\ UNCHANGED <<sent, turn, schemaVars, payloadVars, resolverVars, streamVars, overlapVars>>

\* the translation of the first k parts of a streamed reply
TranslatedPrefix(parts, k) ==
  handleResponseParts(SubSeq(parts, 1, k), 1,
                      [seed |-> 0, buffer |-> <<>>, cache |-> lastThoughtSignature,
                       sink |-> toolCallSignatures, reported |-> <<>>])

\* provideLanguageModelChatResponse on the stream path: the read rejects after k parts
\* were translated; the map was written by the translation, cacheRef.value is not
\* written back, and the call throws
StreamFails ==
  /\ phase = "awaiting"
  /\ \E parts \in ResponseShapes([by |-> Backend(sent.model), n |-> turn]) :
       \E k \in 1..Len(parts) :
         \E st \in {TranslatedPrefix(parts, k)} :
           /\ toolCallSignatures' = st.sink
           /\ latest' = LatestAfter(latest, SubSeq(parts, 1, k), st.reported)
           /\ issued' = issued \o IssuedBy(SubSeq(parts, 1, k), st.reported)
           /\ turnLog' = [turnLog EXCEPT !.signed = CarriesSignature(SubSeq(parts, 1, k)),
                                            !.ended = "error"]
  /\ phase' = "idle"
  /\ warmup' = "none"
  /\ UNCHANGED <<history, lastThoughtSignature, sent, turn, schemaVars, payloadVars,
                 resolverVars, streamVars, overlapVars>>

\* provideLanguageModelChatResponse on the stream path: the token is found cancelled
\* after k parts were translated; streamResponse returns and cacheRef.value is written back
StreamCancelled ==
  /\ phase = "awaiting"
  /\ \E parts \in ResponseShapes([by |-> Backend(sent.model), n |-> turn]) :
       \E k \in 0..(Len(parts) - 1) :
         \E st \in {TranslatedPrefix(parts, k)} :
           /\ toolCallSignatures' = st.sink
           /\ lastThoughtSignature' = st.cache
           /\ latest' = LatestAfter(latest, SubSeq(parts, 1, k), st.reported)
           /\ issued' = issued \o IssuedBy(SubSeq(parts, 1, k), st.reported)
           /\ turnLog' = [turnLog EXCEPT !.signed = CarriesSignature(SubSeq(parts, 1, k)),
                                            !.ended = "cancelled"]
  /\ phase' = "idle"
  /\ warmup' = "none"
  /\ UNCHANGED <<history, sent, turn, schemaVars, payloadVars, resolverVars, streamVars, overlapVars>>

\* provideLanguageModelChatResponse after the fetch: the response is not ok and the call throws
RequestFails ==
  /\ phase = "awaiting"
  /\ phase' = "idle"
  /\ warmup' = "none"
  /\ turnLog' = [turnLog EXCEPT !.ended = "error"]
  /\ UNCHANGED <<history, toolCallSignatures, lastThoughtSignature, sent, turn, latest, issued,
                 schemaVars, payloadVars, resolverVars, streamVars, overlapVars>>

Next ==
  \/ SendRequest
  \/ WarmupThrows
  \/ ReceiveResponse
  \/ RequestFails
  \/ StreamFails
  \/ StreamCancelled

Spec == Init /\ [][Next]_vars

\* ------------------------------------------------------------- resolveModelWithTier on a model id
BaseNames ==
  {<<"gemini", "3", "pro">>, <<"gemini", "3", "flash">>, <<"gemini", "3", "pro", "preview">>,
   <<"gemini", "3", "pro", "image", "preview">>, <<"gemini", "2.5", "flash">>,
   <<"gemini", "2.5", "pro">>, <<"gemini", "2.5", "flash", "image">>,
   <<"claude", "sonnet", "4", "5">>, <<"claude", "sonnet", "4", "5", "thinking">>,
   <<"Claude", "sonnet", "4", "5", "Thinking">>,
   <<"gemini", "claude", "sonnet", "4", "5">>,
   <<"gemini", "claude", "sonnet", "4", "5", "thinking">>,
   <<"gpt", "oss", "120b">>, <<"GPT", "oss", "120b">>, <<"gpt4o", "mini">>,
   <<"llama", "70b">>, <<"qwen", "thinking">>}

TierSuffixes == {<<>>} \cup {<<t>> : t \in ThinkingTiers}

QuotaPrefixes == {<<>>, <<"antigravity">>, <<"Antigravity">>}

ModelIds == {p \o b \o t : p \in QuotaPrefixes, b \in BaseNames, t \in TierSuffixes}

ResolverInit ==
  /\ requestedId \in ModelIds
  /\ resolved = Undef
  /\ SchemaParked /\ PayloadParked /\ SessionParked /\ StreamParked /\ OverlapParked

Resolve ==
  /\ resolved = Undef
  /\ resolved' = resolveModelWithTier(requestedId)
  /\ UNCHANGED <<requestedId, schemaVars, payloadVars, sessionVars, streamVars, overlapVars>>

ResolverNext == Resolve

SpecResolver == ResolverInit /\ [][ResolverNext]_vars

\* ------------------------------------------------------------- streamResponse on an event stream
DataLine(r) == <<"data:", "{", r, "}">>

StreamLines ==
  {DataLine(r) : r \in DOMAIN StreamResponses}
    \cup {<<"data:", " ", "{", "r1", "}", "\r">>,   \* CRLF line ending, space after the colon
          <<"data:", "[DONE]">>,
          <<"data:", "{", "r2">>,                  \* JSON text that does not parse
          <<"data:", "{", "meta", "}">>,           \* JSON object without a response field
          <<":">>,                                 \* comment
          <<>>}                                    \* blank line between events

RECURSIVE joinLines(_)
joinLines(lines) ==
  IF lines = <<>> THEN <<>> ELSE Head(lines) \o <<"\n">> \o joinLines(Tail(lines))

\* what can follow the last newline when the body ends
StreamTails == {<<>>, DataLine("r1")}

Streams ==
  {joinLines(lines) \o tail :
     lines \in UNION {[1..n -> StreamLines] : n \in 0..MaxLines}, tail \in StreamTails}

\* the locals of streamResponse before the loop
StreamStart ==
  [seed |-> 0, buffer |-> <<>>, cache |-> Undef, sink |-> EmptyMap, reported |-> <<>>]

StreamInit ==
  /\ stream \in Streams
  /\ pos = 0
  /\ lineBuffer = <<>>
  /\ streamState = StreamStart
  /\ cancelled \in BOOLEAN
  /\ streamPc = "loop"
  /\ heldBack = FALSE
  /\ SchemaParked /\ PayloadParked /\ SessionParked /\ ResolverParked /\ OverlapParked

StreamOthers == <<schemaVars, payloadVars, sessionVars, resolverVars, overlapVars>>

\* if (token.isCancellationRequested) return;
StreamCheckCancelled ==
  /\ streamPc = "loop" /\ cancelled
  /\ streamPc' = "returned"
  /\ UNCHANGED <<stream, pos, lineBuffer, streamState, cancelled, heldBack, StreamOthers>>

\* await reader.read() is issued
StreamStartRead ==
  /\ streamPc = "loop" /\ ~cancelled
  /\ streamPc' = "reading"
  /\ UNCHANGED <<stream, pos, lineBuffer, streamState, cancelled, heldBack, StreamOthers>>

\* the read resolves with the next n symbols of the body
StreamReadChunk ==
  /\ streamPc = "reading" /\ ~cancelled
  /\ \E n \in 1..(Len(stream) - pos) :
       \E r \in {streamChunk(lineBuffer, SubSeq(stream, pos + 1, pos + n), streamState)} :
         /\ lineBuffer' = r.buffer
         /\ streamState' = r.st
         /\ pos' = pos + n
         /\ heldBack' = (heldBack \/ r.buffer # <<>>)
  /\ streamPc' = "loop"
  /\ UNCHANGED <<stream, cancelled, StreamOthers>>

\* the read resolves with done
StreamReadDone ==
  /\ streamPc = "reading" /\ ~cancelled /\ pos = Len(stream)
  /\ streamPc' = "done"
  /\ UNCHANGED <<stream, pos, lineBuffer, streamState, cancelled, heldBack, StreamOthers>>

\* the token is cancelled while the read is pending; its listener aborts the request
StreamCancel ==
  /\ streamPc = "reading" /\ ~cancelled
  /\ cancelled' = TRUE
  /\ UNCHANGED <<stream, pos, lineBuffer, streamState, streamPc, heldBack, StreamOthers>>

\* the pending read of the aborted request rejects; streamResponse has no catch around it
StreamReadAborted ==
  /\ streamPc = "reading" /\ cancelled
  /\ streamPc' = "threw"
  /\ UNCHANGED <<stream, pos, lineBuffer, streamState, cancelled, heldBack, StreamOthers>>

StreamNext ==
  \/ StreamCheckCancelled
  \/ StreamStartRead
  \/ StreamReadChunk
  \/ StreamReadDone
  \/ StreamCancel
  \/ StreamReadAborted

SpecStream == StreamInit /\ [][StreamNext]_vars

\* ------------------------------------------------------------- turns of one provider that overlap
\* the turns one provider instance can have in flight at the same time
MaxOverlap == 2
OverlapTurns == 1..MaxOverlap

\* a turn that has not been asked for: where it stands, how its reply is read, the parts
\* of its reply, the value of lastThoughtSignature when the translation got it, the
\* cacheRef of its stream, whether no other turn was in flight while it was; writes lists
\* the values the field has held, each with the turn that wrote it (0: before the turns)
IdleTurn ==
  [at |-> "idle", path |-> "none", reply |-> <<>>, captured |-> Undef, cacheRef |-> Undef,
   alone |-> TRUE]

InFlight(t) == inflight[t].at \in {"streaming", "translated", "json"}

\* the turns in flight learn that another one started
Joined(t) ==
  [u \in OverlapTurns |->
     IF u # t /\ InFlight(u) THEN [inflight[u] EXCEPT !.alone = FALSE] ELSE inflight[u]]

\* the replies of the turn t of a provider that talks to Gemini 3
OverlapReplies(t) == ResponseShapes([by |-> Backend(Gemini3Preview), n |-> t])

\* a write-back that leaves the field alone
writeBackNothing(cacheRefValue, current) == current

\* the assignment this.lastThoughtSignature = cacheRef.value after streamResponse returned
writeBack(cacheRefValue, current) == cacheRefValue

\* the cache a session holds when the turns start: none, or the signed thought of an
\* earlier turn
EarlierThought == [text |-> <<"t">>, signature |-> [by |-> Backend(Gemini3Preview), n |-> 0]]

OverlapInit ==
  /\ lastThoughtSignature \in {Undef, EarlierThought}
  /\ history = <<>> /\ toolCallSignatures = EmptyMap
  /\ phase = "off" /\ sent = Undef /\ turn = 0 /\ latest = EmptyMap
  /\ warmup = "none" /\ issued = <<>> /\ turnLog = NoTurn
  /\ inflight = [t \in OverlapTurns |-> IdleTurn]
  /\ writes = <<[turn |-> 0, value |-> lastThoughtSignature]>>
  /\ SchemaParked /\ PayloadParked /\ ResolverParked /\ StreamParked

OverlapOthers ==
  <<history, phase, sent, turn, latest, warmup, issued, turnLog,
    schemaVars, payloadVars, resolverVars, streamVars>>

\* provideLanguageModelChatResponse of turn t, the reply is an event stream: cacheRef is
\* made from the field, then streamResponse awaits its first read
OverlapStartStream(t) ==
  /\ inflight[t].at = "idle"
  /\ \E parts \in OverlapReplies(t) :
       inflight' = [Joined(t) EXCEPT ![t] =
                      [at |-> "streaming", path |-> "stream", reply |-> parts,
                       captured |-> lastThoughtSignature, cacheRef |-> lastThoughtSignature,
                       alone |-> \A u \in OverlapTurns \ {t} : ~InFlight(u)]]
  /\ UNCHANGED <<lastThoughtSignature, toolCallSignatures, writes, OverlapOthers>>

\* streamResponse of turn t: a read resolved with the events of the reply; they are
\* translated and cacheRef.value is updated, then the next read is awaited
OverlapTranslate(t) ==
  /\ inflight[t].at = "streaming"
  /\ \E st \in {handleResponseParts(inflight[t].reply, 1,
                                     [seed |-> 0, buffer |-> <<>>,
                                      cache |-> inflight[t].cacheRef,
                                      sink |-> toolCallSignatures, reported |-> <<>>])} :
       /\ toolCallSignatures' = st.sink
       /\ inflight' = [inflight EXCEPT ![t].at = "translated", ![t].cacheRef = st.cache]
  /\ UNCHANGED <<lastThoughtSignature, writes, OverlapOthers>>

\* streamResponse of turn t returned: cacheRef.value is written to the field
OverlapFinishStream(t) ==
  /\ inflight[t].at = "translated"
  /\ \E value \in {writeBack(inflight[t].cacheRef, lastThoughtSignature)} :
       /\ lastThoughtSignature' = value
       /\ writes' = Append(writes, [turn |-> t, value |-> value])
  /\ inflight' = [inflight EXCEPT ![t].at = "done"]
  /\ UNCHANGED <<toolCallSignatures, OverlapOthers>>

\* provideLanguageModelChatResponse of turn t, the reply is not an event stream:
\* response.json() is awaited
OverlapStartJson(t) ==
  /\ inflight[t].at = "idle"
  /\ \E parts \in OverlapReplies(t) :
       inflight' = [Joined(t) EXCEPT ![t] =
                      [at |-> "json", path |-> "json", reply |-> parts,
                       captured |-> Undef, cacheRef |-> Undef,
                       alone |-> \A u \in OverlapTurns \ {t} : ~InFlight(u)]]
  /\ UNCHANGED <<lastThoughtSignature, toolCallSignatures, writes, OverlapOthers>>

\* the body of turn t was parsed: the field is read, the parts are translated and the
\* field is written, with no await in between
OverlapJsonReply(t) ==
  /\ inflight[t].at = "json"
  /\ \E st \in {handleResponseParts(inflight[t].reply, 1,
                                     [seed |-> 0, buffer |-> <<>>,
                                      cache |-> lastThoughtSignature,
                                      sink |-> toolCallSignatures, reported |-> <<>>])} :
       /\ toolCallSignatures' = st.sink
       /\ lastThoughtSignature' = st.cache
       /\ writes' = Append(writes, [turn |-> t, value |-> st.cache])
  /\ inflight' = [inflight EXCEPT ![t].at = "done", ![t].captured = lastThoughtSignature]
  /\ UNCHANGED OverlapOthers

OverlapNext ==
  \E t \in OverlapTurns :
    \/ OverlapStartStream(t)
    \/ OverlapTranslate(t)
    \/ OverlapFinishStream(t)
    \/ OverlapStartJson(t)
    \/ OverlapJsonReply(t)

SpecOverlap == OverlapInit /\ [][OverlapNext]_vars

\* ------------------------------------------------------------- properties of the cleaner
Cleaned == stage # "input"

ContainsToks(d, h) == \E i \in 1..(Len(d) - Len(h) + 1) : SubSeq(d, i, i + Len(h) - 1) = h

\* C1: the cleaner is idempotent: cleaning a cleaned schema returns it unchanged.
C1_Idempotent == stage = "recleaned" => recleaned = cleaned

\* the keywords the claim lists as never surviving
ListedKeywords ==
  {"$schema", "$id", "$comment", "$ref", "$defs", "definitions", "title", "const",
   "additionalProperties", "propertyNames", "minLength", "maxLength", "exclusiveMinimum",
   "exclusiveMaximum", "pattern", "minItems", "maxItems", "format", "default", "examples"}

Whitelist == {"type", "properties", "required", "items", "enum", "description"}

\* every schema node of v (the keys of a properties map are names, not keywords)
\* carries whitelisted keywords only, and no array-valued type
RECURSIVE OnlyWhitelisted(_)
OnlyWhitelisted(v) ==
  IF IsArr(v) THEN \A i \in 1..Len(v.arr) : OnlyWhitelisted(v.arr[i])
  ELSE IF ~IsObj(v) THEN TRUE
  ELSE /\ Keys(v) \subseteq Whitelist
       /\ ~IsArr(Get(v, "type"))
       /\ \A k \in Keys(v) :
            IF k = "properties" /\ IsObj(v.obj[k])
            THEN \A p \in Keys(v.obj[k]) : OnlyWhitelisted(v.obj[k].obj[p])
            ELSE OnlyWhitelisted(v.obj[k])

\* no schema node of v carries a listed keyword, an allOf list, a non-empty
\* anyOf/oneOf list or an array-valued type
RECURSIVE NoListedKeyword(_)
NoListedKeyword(v) ==
  IF IsArr(v) THEN \A i \in 1..Len(v.arr) : NoListedKeyword(v.arr[i])
  ELSE IF ~IsObj(v) THEN TRUE
  ELSE /\ Keys(v) \cap ListedKeywords = {}
       /\ ~IsArr(Get(v, "type"))
       /\ ~IsArr(Get(v, "allOf"))
       /\ \A u \in {"anyOf", "oneOf"} : ~(IsArr(Get(v, u)) /\ Len(Get(v, u).arr) > 0)
       /\ \A k \in Keys(v) :
            IF k = "properties" /\ IsObj(v.obj[k])
            THEN \A p \in Keys(v.obj[k]) : NoListedKeyword(v.obj[k].obj[p])
            ELSE NoListedKeyword(v.obj[k])

\* C2 as claimed: after cleaning, every schema node carries whitelisted keywords only.
C2_OnlyWhitelistedKeywords == Cleaned => OnlyWhitelisted(cleaned)

\* C2 as amended: after cleaning, no schema node carries one of the twenty listed
\* keywords, an allOf list, a non-empty anyOf/oneOf list or an array-valued type;
\* keywords the cleaner does not list (readOnly) pass through.
C2_NoListedKeywordSurvives == Cleaned => NoListedKeyword(cleaned)

\* a cleaned schema whose input carried a listed keyword below the root, in a property
C2_Witness ==
  /\ stage = "cleaned"
  /\ IsObj(Get(schema, "properties"))
  /\ \E p \in Keys(Get(schema, "properties")) :
       Keys(Get(schema, "properties").obj[p]) \cap ListedKeywords # {}

\* the hint 'keyword: value' of every constraint keyword of an input node is in the
\* description of the corresponding output node (value rendered for scalars)
RECURSIVE HintsRecorded(_, _)
HintsRecorded(in, out) ==
  IF ~IsObj(in) THEN TRUE
  ELSE /\ \A c \in Keys(in) \cap ConstraintSet :
            ContainsToks(DescOf(out),
                         IF IsObjectLike(in.obj[c]) THEN <<c, ":">>
                         ELSE <<c, ":">> \o ToStr(in.obj[c]))
       /\ IsObj(Get(in, "properties")) /\ IsObj(Get(out, "properties")) =>
            \A p \in Keys(Get(in, "properties")) \cap Keys(Get(out, "properties")) :
              HintsRecorded(Get(in, "properties").obj[p], Get(out, "properties").obj[p])
       /\ Has(in, "items") /\ Has(out, "items") =>
            HintsRecorded(Get(in, "items"), Get(out, "items"))

\* C3: every unsupported constraint keyword of the input, whatever its value, is
\* recorded as a hint in the description of the cleaned node.
C3_ConstraintHintsRecorded == Cleaned => HintsRecorded(schema, cleaned)

\* v uses whitelisted keywords only and its object nodes have at least one property
RECURSIVE IsCleanSchema(_)
IsCleanSchema(v) ==
  /\ IsObj(v)
  /\ Keys(v) \subseteq Whitelist
  /\ Has(v, "type") => IsStr(Get(v, "type"))
  /\ Has(v, "description") => IsStr(Get(v, "description"))
  /\ Has(v, "enum") =>
       IsArr(Get(v, "enum")) /\ \A i \in 1..Len(Get(v, "enum").arr) : IsStr(Get(v, "enum").arr[i])
  /\ Has(v, "required") =>
       /\ IsArr(Get(v, "required"))
       /\ \A i \in 1..Len(Get(v, "required").arr) : IsStr(Get(v, "required").arr[i])
  /\ IsStrEq(Get(v, "type"), "object") =>
       IsObj(Get(v, "properties")) /\ Keys(Get(v, "properties")) # {}
  /\ Has(v, "properties") =>
       /\ IsObj(Get(v, "properties"))
       /\ \A p \in Keys(Get(v, "properties")) : IsCleanSchema(Get(v, "properties").obj[p])
  /\ Has(v, "items") => IsCleanSchema(Get(v, "items"))

\* C4: the cleaner returns an already-clean schema unchanged.
C4_IdentityOnCleanSchemas == Cleaned /\ IsCleanSchema(schema) => cleaned = schema

\* every schema node of v with type "object" has a non-empty properties map
RECURSIVE ObjectNodesHaveProperties(_)
ObjectNodesHaveProperties(v) ==
  IF IsArr(v) THEN \A i \in 1..Len(v.arr) : ObjectNodesHaveProperties(v.arr[i])
  ELSE IF ~IsObj(v) THEN TRUE
  ELSE /\ IsStrEq(Get(v, "type"), "object") =>
            IsObj(Get(v, "properties")) /\ Keys(Get(v, "properties")) # {}
       /\ \A k \in Keys(v) :
            IF k = "properties" /\ IsObj(v.obj[k])
            THEN \A p \in Keys(v.obj[k]) : ObjectNodesHaveProperties(v.obj[k].obj[p])
            ELSE ObjectNodesHaveProperties(v.obj[k])

IsUnionFree(v) == Keys(v) \cap {"allOf", "anyOf", "oneOf"} = {}

\* an input node of type "object" (or a $ref) that has no property comes out with the
\* single boolean property _placeholder and required = [_placeholder]
RECURSIVE PlaceholderAdded(_, _)
PlaceholderAdded(in, out) ==
  IF ~IsObj(in) \/ ~IsUnionFree(in) THEN TRUE
  ELSE /\ /\ IsStrEq(Get(in, "type"), "object") \/ IsStr(Get(in, "$ref"))
          /\ Keys(Get(in, "properties")) = {} \/ IsStr(Get(in, "$ref"))
          => /\ Keys(Get(out, "properties")) = {"_placeholder"}
             /\ IsStrEq(Get(Get(out, "properties").obj["_placeholder"], "type"), "boolean")
             /\ Get(out, "required") = Arr(<<Str("_placeholder")>>)
       /\ ~IsStr(Get(in, "$ref")) /\ IsObj(Get(in, "properties")) /\ IsObj(Get(out, "properties")) =>
            \A p \in Keys(Get(in, "properties")) \cap Keys(Get(out, "properties")) :
              PlaceholderAdded(Get(in, "properties").obj[p], Get(out, "properties").obj[p])
       /\ ~IsStr(Get(in, "$ref")) /\ Has(in, "items") /\ Has(out, "items") =>
            PlaceholderAdded(Get(in, "items"), Get(out, "items"))

\* C5: after cleaning, every node of type "object" has a non-empty properties map, and
\* a node that had no property has exactly the boolean property _placeholder, with
\* required = [_placeholder].
C5_ObjectNodesHaveProperties ==
  Cleaned => ObjectNodesHaveProperties(cleaned) /\ PlaceholderAdded(schema, cleaned)

\* a cleaned schema whose input had an object node without properties below the root
C5_Witness ==
  /\ stage = "cleaned"
  /\ IsUnionFree(schema)
  /\ \E p \in Keys(Get(schema, "properties")) :
       LET x == Get(schema, "properties").obj[p]
       IN  /\ IsStrEq(Get(x, "type"), "object") /\ IsUnionFree(x)
           /\ Keys(Get(x, "properties")) = {}
           /\ p \in Keys(Get(cleaned, "properties"))

\* every property name of an input object node (unions aside) is a property name of
\* the output node and maps to a schema
RECURSIVE PropertyNamesKept(_, _)
PropertyNamesKept(in, out) ==
  IF ~IsObj(in) \/ ~IsUnionFree(in) \/ IsStr(Get(in, "$ref")) THEN TRUE
  ELSE /\ IsObj(Get(in, "properties")) =>
            \A p \in Keys(Get(in, "properties")) :
              /\ p \in Keys(Get(out, "properties"))
              /\ IsObj(Get(out, "properties").obj[p])
              /\ PropertyNamesKept(Get(in, "properties").obj[p], Get(out, "properties").obj[p])
       /\ Has(in, "items") /\ Has(out, "items") =>
            PropertyNamesKept(Get(in, "items"), Get(out, "items"))

\* C6: rewriting and stripping never touch property names, also not a property that
\* is named like a keyword (pattern, const, title).
C6_PropertyNamesPreserved == Cleaned => PropertyNamesKept(schema, cleaned)


AllOfMembers(s) ==
  {Get(s, "allOf").arr[i] : i \in {j \in 1..Len(Get(s, "allOf").arr) :
                                     IsObjectLike(Get(s, "allOf").arr[j])}}

ArrSet(v) == IF IsArr(v) THEN {v.arr[i] : i \in 1..Len(v.arr)} ELSE {}

TopLevelKeywordsWin(s, r) ==
  \A k \in Keys(s) \ {"allOf", "properties", "required"} : Get(r, k) = mergeAllOf(Get(s, k))

TopLevelPropertiesWin(s, r) ==
  \A p \in Keys(Get(s, "properties")) :
    Get(Get(r, "properties"), p) = mergeAllOf(Get(Get(s, "properties"), p))

PropertiesAreUnion(s, r) ==
  Keys(Get(r, "properties"))
    = Keys(Get(s, "properties")) \cup UNION {Keys(Get(m, "properties")) : m \in AllOfMembers(s)}

RequiredIsUnion(s, r) ==
  /\ ArrSet(Get(r, "required"))
       = ArrSet(Get(s, "required")) \cup UNION {ArrSet(Get(m, "required")) : m \in AllOfMembers(s)}
  /\ IsArr(Get(r, "required")) =>
       \A i, j \in 1..Len(Get(r, "required").arr) :
         Get(r, "required").arr[i] = Get(r, "required").arr[j] => i = j

\* C26: mergeAllOf gives precedence to the schema that carries allOf: a top-level
\* keyword and a same-named entry of properties keep the value declared at the top
\* level, and properties and required are the duplicate-free unions over the top
\* level and all members.
C26_TopLevelWinsOverMembers ==
  (IsObj(schema) /\ IsArr(Get(schema, "allOf"))) =>
    /\ TopLevelKeywordsWin(schema, mergeAllOf(schema))
    /\ TopLevelPropertiesWin(schema, mergeAllOf(schema))
    /\ PropertiesAreUnion(schema, mergeAllOf(schema))
    /\ RequiredIsUnion(schema, mergeAllOf(schema))

\* ------------------------------------------------------------- properties of the payload
GeminiCliRoute == resolveModelWithTier(requestModel).quotaPreference = "gemini-cli"

Paired == pc \in {"paired", "built"} /\ GeminiCliRoute

\* every functionCall of a model turn has a functionResponse of its id in the next turn,
\* which is a user turn
CallsAnswered(out) ==
  \A c \in 1..Len(out) : \A j \in 1..Len(out[c].parts) :
    (out[c].role = "model" /\ IsCall(out[c].parts[j])) =>
      /\ c + 1 <= Len(out)
      /\ out[c + 1].role = "user"
      /\ \E k \in 1..Len(out[c + 1].parts) :
           /\ IsResponse(out[c + 1].parts[k])
           /\ out[c + 1].parts[k].functionResponse.id = out[c].parts[j].functionCall.id

\* the functionCall parts of the model turns from turn c on, in order
RECURSIVE ModelCalls(_, _)
ModelCalls(out, c) ==
  IF c > Len(out) THEN <<>>
  ELSE (IF out[c].role = "model" THEN SelectParts(out[c].parts, IsCall) ELSE <<>>)
       \o ModelCalls(out, c + 1)

\* those of them whose result is in the next turn, a user turn
RECURSIVE MatchedCalls(_, _)
MatchedCalls(in, c) ==
  IF c > Len(in) THEN <<>>
  ELSE (IF in[c].role = "model" /\ c + 1 <= Len(in)
        THEN SelectParts(in[c].parts,
                         LAMBDA p : /\ IsCall(p)
                                    /\ in[c + 1].role = "user"
                                    /\ p.functionCall.id \in ResponseIds(in[c + 1].parts))
        ELSE <<>>)
       \o MatchedCalls(in, c + 1)

\* C7: on the gemini-cli route, after enforceGeminiToolPairing every functionCall left
\* in a model turn has a functionResponse with the same id in the immediately following
\* user turn, and the calls left are exactly the calls whose result sat in the adjacent
\* user turn: unmatched calls are removed, the matched calls of the same turn are kept.
C7_OnlyPairedCallsRemain ==
  Paired => /\ CallsAnswered(payloadContents)
            /\ ModelCalls(payloadContents, 1) = MatchedCalls(wire, 1)

\* a model turn with a matched and an unmatched call went through the pairing
C7_Witness ==
  /\ Paired
  /\ payloadContents # wire
  /\ \E c \in 1..(Len(wire) - 1) :
       /\ wire[c].role = "model" /\ wire[c + 1].role = "user"
       /\ CallIds(wire[c].parts) \cap ResponseIds(wire[c + 1].parts) # {}
       /\ CallIds(wire[c].parts) \ ResponseIds(wire[c + 1].parts) # {}

Converted == pc \in {"converted", "paired", "built"}

NoResponseInModelTurn(w) ==
  \A c \in 1..Len(w) : w[c].role = "model" => \A j \in 1..Len(w[c].parts) : ~IsResponse(w[c].parts[j])

\* what a wire part is: a text, a call with its id, a response with its id
WireTag(p) ==
  IF IsCall(p) THEN <<"call", p.functionCall.id>>
  ELSE IF IsResponse(p) THEN <<"response", p.functionResponse.id>>
  ELSE <<"text">>

WireShape(w) ==
  [c \in 1..Len(w) |->
     [role |-> w[c].role, parts |-> [j \in 1..Len(w[c].parts) |-> WireTag(w[c].parts[j])]]]

MessageTag(p) ==
  IF p.kind = "call" THEN <<"call", p.callId>>
  ELSE IF p.kind = "result" THEN <<"response", p.callId>>
  ELSE <<"text">>

MessageTags(ps) == [j \in 1..Len(ps) |-> MessageTag(ps[j])]

IsEmitted(p) == p.kind # "text" \/ p.value # <<>>

\* the turns one message is to give: an assistant message its model turn without the
\* results, then a user turn with the results; a user message one user turn
ExpectedTurns(message) ==
  LET own == SelectParts(message.content, LAMBDA p : IsEmitted(p) /\ p.kind # "result")
      results == SelectParts(message.content, LAMBDA p : p.kind = "result")
      all == SelectParts(message.content, IsEmitted)
  IN  IF message.role = "system" THEN <<>>
      ELSE IF message.role = "assistant"
      THEN (IF Len(own) > 0 THEN <<[role |-> "model", parts |-> MessageTags(own)]>> ELSE <<>>)
           \o (IF Len(results) > 0 THEN <<[role |-> "user", parts |-> MessageTags(results)]>>
               ELSE <<>>)
      ELSE IF Len(all) > 0 THEN <<[role |-> "user", parts |-> MessageTags(all)]>> ELSE <<>>

RECURSIVE ExpectedWire(_, _)
ExpectedWire(msgs, i) ==
  IF i > Len(msgs) THEN <<>> ELSE ExpectedTurns(msgs[i]) \o ExpectedWire(msgs, i + 1)

CallThenResult ==
  <<[role |-> "model", parts |-> <<(<<"call", "x">>)>>],
    [role |-> "user", parts |-> <<(<<"response", "x">>)>>]>>

\* C8: convertMessages puts no functionResponse in a model turn: the results of an
\* assistant message form a user turn of their own right after the message's model turn,
\* each functionResponse with the call id of its result part, and an assistant tool call
\* followed by its result gives exactly two turns, model then user, with the same call id.
C8_ResultsInFollowingUserTurn ==
  Converted =>
    /\ NoResponseInModelTurn(wire)
    /\ WireShape(wire) = ExpectedWire(chatMessages, 1)
    /\ (chatMessages \in {<<AssistantCallX, UserResultX>>, <<AssistantCallResultX>>}
          => WireShape(wire) = CallThenResult)

\* an assistant message that holds a call and its result was converted
C8_Witness ==
  /\ pc = "converted"
  /\ \E i \in 1..Len(chatMessages) : chatMessages[i] = AssistantCallResultX
  /\ \E c \in 1..(Len(wire) - 1) :
       /\ wire[c].role = "model" /\ wire[c + 1].role = "user"
       /\ CallIds(wire[c].parts) = {"x"}
       /\ ResponseIds(wire[c + 1].parts) = {"x"}

\* ------------------------------------------------------------- properties of the session
\* the parts of the request that was sent
SentParts ==
  UNION {{sent.contents[c].parts[j] : j \in 1..Len(sent.contents[c].parts)} :
           c \in 1..Len(sent.contents)}

SentCalls == IF sent = Undef THEN {} ELSE {p \in SentParts : IsCall(p)}

\* C9: a request sent after handleResponseParts recorded a signature for call id x
\* carries, on every functionCall part with id x it serializes, the signature recorded
\* last for x, whatever the model of the request and whatever the cached thought is.
C9_RecordedSignatureAttached ==
  phase = "awaiting" =>
    \A p \in SentCalls :
      p.functionCall.id \in DOMAIN latest =>
        HasSignature(p) /\ p.thoughtSignature = latest[p.functionCall.id]

\* a request serializes call x after two responses each recorded a signature for x
C9_Witness ==
  /\ phase = "awaiting"
  /\ "x" \in DOMAIN latest
  /\ latest["x"].n = 2
  /\ Cardinality({i \in DOMAIN issued : issued[i].callId = "x"}) >= 2
  /\ \E p \in SentCalls : p.functionCall.id = "x" /\ p.thoughtSignature = latest["x"]

\* the session-level signatures of the request: the one of a thought part, and the one of
\* a call no signature was recorded for
SessionLevelSignatures ==
  IF sent = Undef THEN {}
  ELSE {p.thoughtSignature :
          p \in {q \in SentParts :
                   /\ HasSignature(q)
                   /\ (isThinkingPart(q) \/ q.functionCall.id \notin DOMAIN toolCallSignatures)}}

\* C10: a session-level thought signature attached to or injected into a request was
\* issued by the backend family and route the request goes to.
C10_SignatureFromSameBackend ==
  phase = "awaiting" => \A sig \in SessionLevelSignatures : sig.by = Backend(sent.model)

WarmupFailures == {"nosig", "status", "network", "badjson"}

\* C14: whenever the warmup of a Gemini 3 turn fails (status not ok, fetch rejected, body
\* not JSON, reply without signed thought), the main request of the turn is still
\* issued, without a primed signature.
C14_WarmupFailureNotFatal ==
  warmup \in WarmupFailures =>
    phase = "awaiting" /\ sent # Undef /\ lastThoughtSignature = Undef

\* C19: in the request sent to a Gemini model, a functionCall whose id has no entry in
\* the per-call signature map carries no thoughtSignature: the session-level signature
\* is attached to tool calls for Claude targets only.
C19_NoSessionSignatureOnGeminiCalls ==
  (phase = "awaiting" /\ Backend(sent.model).family = "gemini") =>
    \A p \in SentCalls :
      p.functionCall.id \notin DOMAIN toolCallSignatures => ~HasSignature(p)

\* C20: every emitted tool call that carried a signature keeps it: a call id names one
\* call only, and the entry of the per-call signature map for a call is the signature
\* that call was issued with, never the one of another call.
C20_EachCallKeepsItsSignature ==
  /\ \A i, j \in DOMAIN issued : issued[i].callId = issued[j].callId => i = j
  /\ \A i \in DOMAIN issued :
       /\ issued[i].callId \in DOMAIN toolCallSignatures
       /\ toolCallSignatures[issued[i].callId] = issued[i].signature

\* ------------------------------------------------------------- properties of the resolver
Resolved == resolved # Undef

\* the id carries the antigravity- prefix, in any case
Prefixed == Len(requestedId) >= 2 /\ Lower(requestedId[1]) = "antigravity"

\* the id without that prefix, in lower case: its name
IdName == toLowerCase(IF Prefixed THEN Tail(requestedId) ELSE requestedId)

TierSuffixed == Len(IdName) > 1 /\ IdName[Len(IdName)] \in ThinkingTiers

NameWithoutTier == SubSeq(IdName, 1, Len(IdName) - 1)

ClaudeOrGptName == TokenStartsWith(IdName[1], "claude") \/ TokenStartsWith(IdName[1], "gpt")

\* C15: quotaPreference is "antigravity" exactly for the ids with the antigravity- prefix
\* and the ids whose name starts with claude or gpt, "gemini-cli" for all others;
\* explicitQuota tells whether the prefix was there.
C15_QuotaRoute ==
  Resolved =>
    /\ resolved.quotaPreference =
         (IF Prefixed \/ ClaudeOrGptName THEN "antigravity" ELSE "gemini-cli")
    /\ resolved.explicitQuota = Prefixed

\* an id without the prefix is routed to antigravity for its name alone
C15_Witness ==
  /\ Resolved
  /\ requestedId = <<"GPT", "oss", "120b", "medium">>
  /\ resolved.quotaPreference = "antigravity"
  /\ ~resolved.explicitQuota

Gemini3ProName == StartsWith(IdName, <<"gemini", "3", "pro">>)
Gemini3FlashName == StartsWith(IdName, <<"gemini", "3", "flash">>)

\* C16: for an id with the antigravity- prefix and a Gemini 3 name the alias table is not
\* used: a Pro name without tier gets -low appended, a Pro name with a tier is kept, a
\* Flash name with a tier loses it and reports it as thinkingLevel; the route is
\* "antigravity".
C16_PrefixedGemini3Names ==
  (Resolved /\ Prefixed /\ StartsWith(IdName, <<"gemini", "3">>)) =>
    /\ resolved.quotaPreference = "antigravity"
    /\ (Gemini3ProName /\ ~TierSuffixed => resolved.actualModel = Append(IdName, "low"))
    /\ (Gemini3ProName /\ TierSuffixed => resolved.actualModel = IdName)
    /\ (Gemini3FlashName /\ TierSuffixed =>
          /\ resolved.actualModel = NameWithoutTier
          /\ "thinkingLevel" \in DOMAIN resolved
          /\ resolved.thinkingLevel = IdName[Len(IdName)])

\* antigravity-gemini-3-pro was resolved
C16_Witness ==
  /\ Resolved
  /\ requestedId = <<"antigravity", "gemini", "3", "pro">>
  /\ resolved.actualModel = <<"gemini", "3", "pro", "low">>

HasLevel == "thinkingLevel" \in DOMAIN resolved
HasBudget == "thinkingBudget" \in DOMAIN resolved
ResolvedName == toLowerCase(resolved.actualModel)
ResolvedGemini3 == Includes(ResolvedName, <<"gemini", "3">>)
ResolvedClaudeThinking ==
  Includes(ResolvedName, <<"claude">>) /\ Includes(ResolvedName, <<"thinking">>)

\* C17: without a tier, a Gemini 3 model is a thinking model with thinkingLevel "low" and
\* no budget, a Claude thinking model is a thinking model with thinkingBudget 32768 and
\* no level, any other model has neither; no result has both a level and a budget.
C17_DefaultThinking ==
  Resolved =>
    /\ ~(HasLevel /\ HasBudget)
    /\ "tier" \notin DOMAIN resolved =>
         IF ResolvedGemini3
         THEN resolved.isThinkingModel /\ HasLevel /\ resolved.thinkingLevel = "low" /\ ~HasBudget
         ELSE IF ResolvedClaudeThinking
         THEN resolved.isThinkingModel /\ HasBudget /\ resolved.thinkingBudget = 32768
              /\ ~HasLevel
         ELSE ~HasLevel /\ ~HasBudget

\* a Claude thinking id without tier was resolved
C17_Witness ==
  /\ Resolved
  /\ requestedId = <<"Claude", "sonnet", "4", "5", "Thinking">>
  /\ "tier" \notin DOMAIN resolved
  /\ HasBudget /\ ~HasLevel

\* the families whose ids may end in a tier
TieredFamily ==
  \/ Includes(IdName, <<"gemini", "3">>)
  \/ Includes(IdName, <<"gemini", "2.5">>)
  \/ (Includes(IdName, <<"claude">>) /\ Includes(IdName, <<"thinking">>))

UnknownName == IdName[1] \notin {"gemini", "claude", "gpt", "gpt4o"}

\* C18: for an id outside the families with tiers a trailing tier word stays in
\* actualModel and no tier, thinkingLevel or thinkingBudget is set; an unknown id is its
\* own actualModel, with isThinkingModel false.
C18_OtherFamiliesUntouched ==
  (Resolved /\ ~TieredFamily) =>
    /\ (TierSuffixed =>
          toLowerCase(resolved.actualModel)[Len(resolved.actualModel)] = IdName[Len(IdName)])
    /\ DOMAIN resolved \cap {"tier", "thinkingLevel", "thinkingBudget"} = {}
    /\ (UnknownName =>
          /\ toLowerCase(resolved.actualModel) = IdName
          /\ ~resolved.isThinkingModel)

ResolvedClaudeOrGpt ==
  TokenStartsWith(ResolvedName[1], "claude") \/ TokenStartsWith(ResolvedName[1], "gpt")

\* C30: whenever the actualModel that resolveModelWithTier returns, after alias and
\* fallback substitution, is a Claude or GPT model, quotaPreference is "antigravity".
C30_ClaudeNeverOnGeminiCli ==
  (Resolved /\ ResolvedClaudeOrGpt) => resolved.quotaPreference = "antigravity"

\* ------------------------------------------------------------- properties of the stream
StreamDone == streamPc = "done"

\* the whole body delivered by a single read
OneChunk == streamChunk(<<>>, stream, StreamStart).st

CallReported(id) ==
  \E i \in 1..Len(streamState.reported) :
    streamState.reported[i].kind = "call" /\ streamState.reported[i].callId = id

\* C11: streamResponse is independent of chunking: for a body of newline-terminated
\* lines, however the reads split it, the reported parts (with the synthesized
\* tool-call-<n> ids), the final thought cache and the recorded per-call signatures
\* are those of the run in which the whole body arrives as one chunk.
C11_ChunkingIndependent ==
  StreamDone =>
    /\ streamState.reported = OneChunk.reported
    /\ streamState.cache = OneChunk.cache
    /\ streamState.sink = OneChunk.sink

\* a finished run in which a read ended inside a line, two calls got synthesized ids
\* and a signature was recorded
C11_Witness ==
  /\ StreamDone /\ heldBack
  /\ CallReported(ToolCallId(1)) /\ CallReported(ToolCallId(2))
  /\ streamState.cache # Undef
  /\ DOMAIN streamState.sink # {}

\* a thought or reasoning part, as the reply marks it
ThoughtPart(part) ==
  \/ ("thought" \in DOMAIN part /\ part.thought = TRUE)
  \/ ("type" \in DOMAIN part /\ part.type \in {"thinking", "redacted_thinking", "reasoning"})

RECURSIVE VisibleOfParts(_)
VisibleOfParts(parts) ==
  IF parts = <<>> THEN <<>>
  ELSE LET part == Head(parts)
           here == IF ThoughtPart(part) THEN <<>>
                   ELSE IF "text" \in DOMAIN part THEN <<(<<"text", part.text>>)>>
                   ELSE IF "functionCall" \in DOMAIN part
                        THEN <<(<<"call", part.functionCall.name>>)>>
                   ELSE <<>>
       IN  here \o VisibleOfParts(Tail(parts))

RECURSIVE VisibleOfCandidates(_)
VisibleOfCandidates(candidates) ==
  IF candidates = <<>> THEN <<>>
  ELSE (IF "parts" \in DOMAIN Head(candidates)
        THEN VisibleOfParts(Head(candidates).parts) ELSE <<>>)
       \o VisibleOfCandidates(Tail(candidates))

RECURSIVE VisibleOfLines(_)
VisibleOfLines(lines) ==
  IF lines = <<>> THEN <<>>
  ELSE (IF parseSSELineResponse(Head(lines)) = Undef THEN <<>>
        ELSE VisibleOfCandidates(parseSSELineResponse(Head(lines)).candidates))
       \o VisibleOfLines(Tail(lines))

\* the lines of the body that have arrived whole
ArrivedLines == splitFrom(SubSeq(stream, 1, pos), 1, <<>>, <<>>).lines

ReportedShape ==
  [i \in 1..Len(streamState.reported) |->
     IF streamState.reported[i].kind = "text"
     THEN <<"text", streamState.reported[i].value>>
     ELSE <<"call", streamState.reported[i].name>>]

ThoughtTexts ==
  UNION {UNION {{thoughtText(c.parts[j]) : j \in {k \in 1..Len(c.parts) : ThoughtPart(c.parts[k])}}
                : c \in {StreamResponses[r][i] : i \in {k \in 1..Len(StreamResponses[r]) :
                                                         "parts" \in DOMAIN StreamResponses[r][k]}}}
         : r \in DOMAIN StreamResponses}

\* C12: the parts reported to the caller are exactly the non-thought text parts and
\* the function-call parts of the reply received so far, in arrival order across
\* chunks, candidates and parts; the text of a thought part is never reported.
C12_ReportedAreVisibleParts ==
  streamPc # "off" =>
    /\ ReportedShape = VisibleOfLines(ArrivedLines)
    /\ \A i \in 1..Len(streamState.reported) :
         streamState.reported[i].kind = "text" => streamState.reported[i].value \notin ThoughtTexts

\* a finished run over two events, with thought parts among at least four reported parts
C12_Witness ==
  /\ StreamDone
  /\ Len(streamState.reported) >= 4
  /\ streamState.buffer # <<>>
  /\ \E i, j \in 1..Len(streamState.reported) :
       i < j /\ streamState.reported[i].kind = "call" /\ streamState.reported[j].kind = "text"

\* C13: once cancellation has been requested on the token, streamResponse reports no
\* further part and returns without raising an error.
C13_QuietAfterCancellation ==
  [][cancelled => /\ streamState'.reported = streamState.reported
                  /\ streamPc' # "threw"]_vars

\* ------------------------------------------------------------- further properties of the payload
PayloadBuilt == pc = "built"
ClaudeThinkingTarget == isClaudeThinkingModel(resolveModelWithTier(requestModel).actualModel)

ThoughtsFormPrefix(parts) ==
  \A i, j \in 1..Len(parts) : (i < j /\ ThoughtPart(parts[j])) => ThoughtPart(parts[i])

HasFunctionCall(parts) == \E j \in 1..Len(parts) : "functionCall" \in DOMAIN parts[j]

CacheHasTextAndSignature ==
  /\ lastThoughtSignature # Undef
  /\ lastThoughtSignature.text # <<>>
  /\ lastThoughtSignature.signature # Undef

\* C24: after ensureClaudeThinkingToolHistory has run for a Claude thinking target, in
\* every model turn the thought parts form a prefix of the parts, and, when the session
\* cache holds a thought text and a signature, every turn with a functionCall starts
\* with a thought part.
C24_ThoughtsFirstInModelTurns ==
  (PayloadBuilt /\ ClaudeThinkingTarget) =>
    \A c \in 1..Len(payloadContents) :
      payloadContents[c].role = "model" =>
        /\ ThoughtsFormPrefix(payloadContents[c].parts)
        /\ (CacheHasTextAndSignature /\ HasFunctionCall(payloadContents[c].parts)) =>
             ThoughtPart(payloadContents[c].parts[1])

\* a payload built for a Claude thinking target in which a turn with two calls got the
\* cached thought in front of them
C24_Witness ==
  /\ PayloadBuilt /\ ClaudeThinkingTarget /\ CacheHasTextAndSignature
  /\ \E c \in 1..Len(payloadContents) :
       /\ payloadContents[c].role = "model"
       /\ Len(payloadContents[c].parts) >= 3
       /\ ThoughtPart(payloadContents[c].parts[1])
       /\ payloadContents[c].parts[1].thoughtSignature = lastThoughtSignature.signature
       /\ HasFunctionCall(payloadContents[c].parts)

\* C27: after enforceGeminiToolPairing, every functionResponse part that remains in a
\* user turn has a functionCall with the same id in the model turn just before it.
C27_NoOrphanToolResult ==
  (pc = "paired" /\ resolveModelWithTier(requestModel).quotaPreference = "gemini-cli") =>
    \A c \in 1..Len(payloadContents) :
      payloadContents[c].role = "user" =>
        \A j \in 1..Len(payloadContents[c].parts) :
          "functionResponse" \in DOMAIN payloadContents[c].parts[j] =>
            /\ c > 1
            /\ payloadContents[c - 1].role = "model"
            /\ \E k \in 1..Len(payloadContents[c - 1].parts) :
                 /\ "functionCall" \in DOMAIN payloadContents[c - 1].parts[k]
                 /\ payloadContents[c - 1].parts[k].functionCall.id
                      = payloadContents[c].parts[j].functionResponse.id

\* ------------------------------------------------------------- further properties of the stream
\* the response an event line names: the line is data: followed by a JSON text with a
\* response field, white space aside; "" for any other line
EventOf(line) ==
  LET t == SelectSeq(line, LAMBDA x : x \notin {"\r", " "})
  IN  IF Len(t) = 4 /\ t[1] = "data:" /\ t[2] = "{" /\ t[4] = "}" /\ t[3] \in {"r1", "r2", "r3"}
      THEN t[3] ELSE ""

\* the newline-terminated lines of the whole body
TerminatedLines == splitFrom(stream, 1, <<>>, <<>>).lines

EventsOfBody ==
  SelectSeq([i \in 1..Len(TerminatedLines) |-> EventOf(TerminatedLines[i])],
            LAMBDA e : e # "")

\* the translation of a list of responses, one after the other, on one stream state
RECURSIVE TranslateEvents(_, _)
TranslateEvents(events, st) ==
  IF events = <<>> THEN st
  ELSE Let(handleCandidates(StreamResponses[Head(events)], 1, st),
           LAMBDA n : TranslateEvents(Tail(events), n))

\* C25: streamResponse translates exactly the newline-terminated lines that start with
\* data: and whose payload parses as JSON with a response field; any other line reports
\* no part, changes neither signature cache and does not stop later lines; a final
\* fragment without a newline is never translated.
C25_OnlyEventLinesTranslated ==
  StreamDone =>
    /\ streamState.reported = TranslateEvents(EventsOfBody, StreamStart).reported
    /\ streamState.cache = TranslateEvents(EventsOfBody, StreamStart).cache
    /\ streamState.sink = TranslateEvents(EventsOfBody, StreamStart).sink

\* a finished run over a skipped line, then an event line with a CRLF ending, then a
\* fragment that no newline ends
C25_Witness ==
  /\ StreamDone
  /\ Len(TerminatedLines) = 2
  /\ EventOf(TerminatedLines[1]) = ""
  /\ TerminatedLines[1] # <<>>
  /\ EventOf(TerminatedLines[2]) = "r1"
  /\ TerminatedLines[2][Len(TerminatedLines[2])] = "\r"
  /\ lineBuffer = DataLine("r1")
  /\ Len(streamState.reported) = 1

\* the signed thought parts of the replies, each with the text of its reasoning block:
\* the thought text since the signed thought part before it
SignedBlocks ==
  UNION {UNION {
    {[signature |-> StreamResponses[r][c].parts[j].thoughtSignature,
      text |-> LET parts == StreamResponses[r][c].parts
                   from == {k \in 1..(j - 1) :
                              ThoughtPart(parts[k]) /\ "thoughtSignature" \in DOMAIN parts[k]}
                   RECURSIVE cat(_)
                   cat(k) == IF k > j THEN <<>>
                             ELSE (IF ThoughtPart(parts[k]) /\ \A f \in from : f < k
                                   THEN thoughtText(parts[k]) ELSE <<>>) \o cat(k + 1)
               IN  cat(1)]
       : j \in {k \in 1..Len(StreamResponses[r][c].parts) :
                  /\ ThoughtPart(StreamResponses[r][c].parts[k])
                  /\ "thoughtSignature" \in DOMAIN StreamResponses[r][c].parts[k]}}
    : c \in {k \in 1..Len(StreamResponses[r]) : "parts" \in DOMAIN StreamResponses[r][k]}}
  : r \in DOMAIN StreamResponses}

\* C21: the cached thought pairs a signature with exactly the text of the reasoning
\* block the signature was issued for, also when a reply or stream holds several
\* signed reasoning blocks.
C21_CacheTextIsItsBlock ==
  (streamPc # "off" /\ streamState.cache # Undef
     /\ \E b \in SignedBlocks : b.signature = streamState.cache.signature) =>
    \E b \in SignedBlocks :
      b.signature = streamState.cache.signature /\ b.text = streamState.cache.text

\* ------------------------------------------------------------- further properties of the session
CacheHoldsSignature == lastThoughtSignature # Undef

C28_FailedTurnLeavesCaches ==
  turnLog.ended = "error" =>
    /\ lastThoughtSignature = turnLog.before.thought
    /\ toolCallSignatures = turnLog.before.map

\* C29: for a Gemini 3 turn whose payload has tool calls, if the session cache holds a
\* signature when the main request is built, every functionCall of the model turns of
\* the sent payload carries a thoughtSignature and every such turn contains a signed
\* thought part.
C29_CallsSignedWhenCacheHolds ==
  (phase = "awaiting" /\ IsGemini3(sent.model) /\ CacheHoldsSignature) =>
    \A c \in 1..Len(sent.contents) :
      (sent.contents[c].role = "model" /\ HasFunctionCall(sent.contents[c].parts)) =>
        /\ \A j \in 1..Len(sent.contents[c].parts) :
             "functionCall" \in DOMAIN sent.contents[c].parts[j] =>
               "thoughtSignature" \in DOMAIN sent.contents[c].parts[j]
        /\ \E j \in 1..Len(sent.contents[c].parts) :
             /\ ThoughtPart(sent.contents[c].parts[j])
             /\ "thoughtSignature" \in DOMAIN sent.contents[c].parts[j]

\* ------------------------------------------------------------- properties of overlapping turns
\* the signature of the last part of a reply that carries one
LastSignature(parts) ==
  LET signedAt == {j \in 1..Len(parts) : CarriesSignature(<<parts[j]>>)}
  IN  parts[CHOOSE j \in signedAt : \A k \in signedAt : k <= j].thoughtSignature

\* the i-th value of the field is what a turn that ran alone leaves: the signature of
\* the last signed part of its reply, or the value the field held before
LeftBySerializedTurn(i) ==
  LET reply == inflight[writes[i].turn].reply
  IN  IF CarriesSignature(reply)
      THEN writes[i].value # Undef /\ writes[i].value.signature = LastSignature(reply)
      ELSE writes[i].value = writes[i - 1].value

\* C23: when the turns of one provider are serialized, after each turn lastThoughtSignature
\* holds the signature of the last signed thought of that turn's reply, or the previous
\* value if the reply had none; a streamed turn whose reply had no signed thought
\* writes back the value it captured when its stream started.
C23_SerializedTurnsKeepLatest ==
  /\ writes # <<>> => lastThoughtSignature = writes[Len(writes)].value
  /\ \A i \in 2..Len(writes) :
       /\ inflight[writes[i].turn].alone => LeftBySerializedTurn(i)
       /\ (inflight[writes[i].turn].path = "stream"
           /\ ~CarriesSignature(inflight[writes[i].turn].reply))
          => writes[i].value = inflight[writes[i].turn].captured

\* two turns overlapped: the other turn stored the signature of its reply, then a streamed
\* turn whose reply had no signed thought wrote back the older value it had captured
C23_Witness ==
  /\ Len(writes) >= 3
  /\ LET mine == writes[Len(writes)]
         theirs == writes[Len(writes) - 1]
     IN  /\ mine.turn # theirs.turn
         /\ inflight[mine.turn].path = "stream"
         /\ ~inflight[mine.turn].alone
         /\ ~CarriesSignature(inflight[mine.turn].reply)
         /\ CarriesSignature(inflight[theirs.turn].reply)
         /\ theirs.value # Undef
         /\ theirs.value.signature = LastSignature(inflight[theirs.turn].reply)
         /\ mine.value = inflight[mine.turn].captured
         /\ mine.value # theirs.value
         /\ lastThoughtSignature = mine.value

====
